---- MODULE Spec2Model ----
(***************************************************************************)
(* A model of the JSONH reader of JsonhCpp: the rune reader (utf8_reader), *)
(* the tokenizer (jsonh_reader::read_element and the productions it        *)
(* calls), the tree builder (jsonh_reader::parse_element) and the number   *)
(* parser (jsonh_number_parser::parse).                                    *)
(*                                                                         *)
(* A rune is a string: an ASCII rune is the one-character string, a rune   *)
(* that TLA+ cannot write is named by its code point ("U+00A0").  A stream *)
(* is a sequence of runes s and a position p, the number of runes already  *)
(* consumed.  Every production is an operator from (s, p) to the tokens it *)
(* returns and the position it leaves the reader at, computed as the code  *)
(* computes it.                                                            *)
(***************************************************************************)
EXTENDS Integers, Sequences, FiniteSets, TLC

VARIABLES
  input,              \* the runes of the stream the reader is constructed on
  incomplete_inputs,  \* jsonh_reader_options::incomplete_inputs
  max_depth,          \* jsonh_reader_options::max_depth
  parse_single_element, \* jsonh_reader_options::parse_single_element
  version,            \* jsonh_reader_options::version
  property_name,      \* the argument of find_property_value, if it is called
  char_is_signed,     \* whether char is a signed type in this build
  calls,              \* the calls made on a utf8_reader over the bytes of `input`,
                      \* or on the number parser with `input` and `alternative`
  pc,                 \* "input", "read" (read_element returned), "done"
                      \* (parse_element returned) or "aborted" (no return)
  tokens,             \* what read_element returned
  position,           \* the runes the reader has consumed
  nested,             \* a braceless object was started below the root element
  result,             \* what parse_element returned
  document,           \* the json value the input was written from, if any
  alternative         \* the same input written another way, if any

vars == <<input, incomplete_inputs, max_depth, parse_single_element, version, property_name,
          char_is_signed, calls, pc, tokens, position, nested, result, document,
          alternative>>

(***************************************************************************)
(* Runes and rune classes                                                  *)
(***************************************************************************)

\* std::nullopt, as returned by read() and peek() at the end of the stream.
Nil == "<nullopt>"

NBSP == "U+00A0"
VT == "U+000B"
LS == "U+2028"
PS == "U+2029"

reserved_runes == {"\\", ",", ":", "[", "]", "{", "}", "/", "#", "\"", "'"}

newline_runes == {"\n", "\r", LS, PS}

whitespace_runes ==
  {" ", NBSP, "U+1680", "U+2000", "U+2001", "U+2002", "U+2003", "U+2004", "U+2005",
   "U+2006", "U+2007", "U+2008", "U+2009", "U+200A", "U+202F", "U+205F", "U+3000", LS,
   PS, "\t", "\n", VT, "\f", "\r", "U+0085"}

\* The runes of the model whose UTF-8 encoding is one byte long, i.e. the
\* ones utf8_reader::read returns from its fast path (first byte <= 127).
IsSingleByte(rune) == rune \notin (whitespace_runes \ {" ", "\t", "\n", VT, "\f", "\r"})

\* A local of the code: With(e, LAMBDA x : body) is body with x bound to the
\* value of e, computed once.
With(bound, Body(_)) == Body(bound)

(***************************************************************************)
(* utf8_reader                                                             *)
(***************************************************************************)

\* The streams of the reader hold runes of one or two bytes, which read
\* returns whole where char is signed; the reader over bytes is further down.
Read(s, p) ==
  IF p < Len(s) THEN [rune |-> s[p + 1], p |-> p + 1] ELSE [rune |-> Nil, p |-> p]

Peek(s, p) == Read(s, p).rune

ReadOne(s, p, option) ==
  IF Peek(s, p) = option THEN [ok |-> TRUE, p |-> Read(s, p).p] ELSE [ok |-> FALSE, p |-> p]

ReadAny(s, p, options) ==
  LET next == Peek(s, p)
  IN  IF next = Nil \/ next \notin options
      THEN [rune |-> Nil, p |-> p]
      ELSE [rune |-> next, p |-> Read(s, p).p]

\* read_reverse on a reader at position p > 0: the bytes of the rune before
\* p are collected last byte first and returned in that order, so only a
\* one-byte rune comes back as itself; a longer rune comes back as a byte
\* string that is no rune of the stream ("<reversed>").  At p = 0 the seek
\* fails and nullopt is returned.
ReadReverse(s, p) ==
  IF p = 0 THEN [rune |-> Nil, p |-> p]
  ELSE [rune |-> IF IsSingleByte(s[p]) THEN s[p] ELSE "<reversed>", p |-> p - 1]

(***************************************************************************)
(* Tokens: nonstd::expected<jsonh_token, std::string>                      *)
(***************************************************************************)

Tok(type, value) == [ok |-> TRUE, type |-> type, value |-> value, error |-> ""]

\* The messages are the source's, without its backquotes.
Fail(message) == [ok |-> FALSE, type |-> "none", value |-> <<>>, error |-> message]

HasFailure(toks) == \E i \in 1..Len(toks) : ~toks[i].ok

FirstFailure(toks) == CHOOSE i \in 1..Len(toks) : ~toks[i].ok /\ \A j \in 1..(i - 1) : toks[j].ok

\* The loop below without its return: every token of `sub` is pushed.
CollectAll(toks, sub) == toks \o sub

\* The loop every production runs over the tokens of a production it calls:
\*   for (token : sub()) { if (!token) { tokens.push_back(token); return tokens; }
\*                         tokens.push_back(token); }
\* Collect is `tokens` after the loop; the caller returns iff HasFailure(sub).
Collect(toks, sub) ==
  IF HasFailure(sub) THEN toks \o SubSeq(sub, 1, FirstFailure(sub)) ELSE toks \o sub

(***************************************************************************)
(* Whitespace and comments                                                 *)
(***************************************************************************)

RECURSIVE ReadWhitespace(_, _)
ReadWhitespace(s, p) ==
  LET next == Peek(s, p)
  IN  IF next # Nil /\ next \in whitespace_runes THEN ReadWhitespace(s, Read(s, p).p) ELSE p

\* The loop of read_comment after the opening delimiter.
RECURSIVE ReadCommentBody(_, _, _, _)
ReadCommentBody(s, p, block_comment, comment_builder) ==
  LET next == Read(s, p)
  IN  IF block_comment
      THEN IF next.rune = Nil
           THEN [tok |-> Fail("Expected end of block comment, got end of input"), p |-> next.p]
           ELSE IF next.rune = "*" /\ ReadOne(s, next.p, "/").ok
           THEN [tok |-> Tok("comment", comment_builder), p |-> ReadOne(s, next.p, "/").p]
           ELSE ReadCommentBody(s, next.p, block_comment, Append(comment_builder, next.rune))
      ELSE IF next.rune = Nil \/ next.rune \in newline_runes
           THEN [tok |-> Tok("comment", comment_builder), p |-> next.p]
           ELSE ReadCommentBody(s, next.p, block_comment, Append(comment_builder, next.rune))

ReadComment(s, p) ==
  IF ReadOne(s, p, "#").ok THEN ReadCommentBody(s, p + 1, FALSE, <<>>)
  ELSE IF ReadOne(s, p, "/").ok
  THEN IF ReadOne(s, p + 1, "/").ok THEN ReadCommentBody(s, p + 2, FALSE, <<>>)
       ELSE IF ReadOne(s, p + 1, "*").ok THEN ReadCommentBody(s, p + 2, TRUE, <<>>)
       ELSE [tok |-> Fail("Unexpected /"), p |-> p + 1]
  ELSE [tok |-> Fail("Unexpected character"), p |-> p]

\* read_comments_and_whitespace pushes whatever read_comment returns, a
\* failure included, and goes on: the vector it returns may hold tokens
\* after a failure.
RECURSIVE ReadCommentsAndWhitespaceLoop(_, _, _)
ReadCommentsAndWhitespaceLoop(s, p, toks) ==
  With(ReadWhitespace(s, p), LAMBDA q :
    IF Peek(s, q) \in {"#", "/"}
    THEN With(ReadComment(s, q), LAMBDA comment :
           ReadCommentsAndWhitespaceLoop(s, comment.p, Append(toks, comment.tok)))
    ELSE [toks |-> toks, p |-> q])

ReadCommentsAndWhitespace(s, p) == ReadCommentsAndWhitespaceLoop(s, p, <<>>)

(***************************************************************************)
(* Escape sequences                                                        *)
(***************************************************************************)

HexDigits == <<"0", "1", "2", "3", "4", "5", "6", "7", "8", "9", "a", "b", "c", "d", "e", "f">>

UpperCase == <<"A", "B", "C", "D", "E", "F", "G", "H", "I", "J", "K", "L", "M",
               "N", "O", "P", "Q", "R", "S", "T", "U", "V", "W", "X", "Y", "Z">>

LowerCase == <<"a", "b", "c", "d", "e", "f", "g", "h", "i", "j", "k", "l", "m",
               "n", "o", "p", "q", "r", "s", "t", "u", "v", "w", "x", "y", "z">>

to_ascii_lower(rune) ==
  IF \E i \in 1..26 : UpperCase[i] = rune
  THEN LowerCase[CHOOSE i \in 1..26 : UpperCase[i] = rune]
  ELSE rune

\* The index of a rune in a digit alphabet (std::string::find), 0 for npos.
DigitIndex(base_digits, rune) ==
  IF \E i \in 1..Len(base_digits) : base_digits[i] = rune
  THEN CHOOSE i \in 1..Len(base_digits) : base_digits[i] = rune
  ELSE 0

IsHexDigit(rune) == DigitIndex(HexDigits, to_ascii_lower(rune)) # 0

\* An unsigned int, as its two 16-bit halves (the integers of TLC are
\* narrower than 2^32).
U32(hi, lo) == [hi |-> hi % 65536, lo |-> lo % 65536]

\* read_hex_sequence: `length` runes, each a hex digit, as an unsigned int.
RECURSIVE ReadHexSequence(_, _, _, _)
ReadHexSequence(s, p, length, value) ==
  IF length = 0 THEN [ok |-> TRUE, value |-> value, p |-> p, error |-> ""]
  ELSE With(Read(s, p), LAMBDA next :
       With(value.lo * 16 + DigitIndex(HexDigits, to_ascii_lower(next.rune)) - 1, LAMBDA low :
         IF next.rune # Nil /\ IsHexDigit(next.rune)
         THEN ReadHexSequence(s, next.p, length - 1, U32(value.hi * 16 + low \div 65536, low))
         ELSE [ok |-> FALSE, value |-> U32(0, 0), p |-> next.p,
               error |-> "Incorrect number of hexadecimal digits in unicode escape sequence"]))

\* The runes of code points 32..126.
PrintableAscii ==
  <<" ", "!", "\"", "#", "$", "%", "&", "'", "(", ")", "*", "+", ",", "-", ".", "/",
    "0", "1", "2", "3", "4", "5", "6", "7", "8", "9", ":", ";", "<", "=", ">", "?",
    "@", "A", "B", "C", "D", "E", "F", "G", "H", "I", "J", "K", "L", "M", "N", "O",
    "P", "Q", "R", "S", "T", "U", "V", "W", "X", "Y", "Z", "[", "\\", "]", "^", "_",
    "BACKQUOTE", "a", "b", "c", "d", "e", "f", "g", "h", "i", "j", "k", "l", "m", "n", "o",
    "p", "q", "r", "s", "t", "u", "v", "w", "x", "y", "z", "{", "|", "}", "~">>

HexDigitUpper(d) == <<"0", "1", "2", "3", "4", "5", "6", "7", "8", "9", "A", "B", "C", "D", "E", "F">>[d + 1]

RECURSIVE HexString(_, _)
HexString(n, width) ==
  IF n = 0 /\ width <= 0 THEN ""
  ELSE HexString(n \div 16, width - 1) \o HexDigitUpper(n % 16)

\* The rune a code point encodes to, named as the streams of the model name it.
RuneOfCodePoint(cp) ==
  IF cp \in 32..126 THEN PrintableAscii[cp - 31]
  ELSE IF cp = 9 THEN "\t" ELSE IF cp = 10 THEN "\n" ELSE IF cp = 12 THEN "\f"
  ELSE IF cp = 13 THEN "\r" ELSE "U+" \o HexString(cp, 4)

code_point_to_utf8(code_point) ==
  LET cp == code_point.hi * 65536 + code_point.lo
  IN  IF code_point.hi = 0 /\ code_point.lo >= 55296 /\ code_point.lo <= 57343
      THEN [ok |-> FALSE, rune |-> Nil, error |-> "Invalid code point (surrogate half)"]
      ELSE IF code_point.hi <= 16
      THEN [ok |-> TRUE, rune |-> RuneOfCodePoint(cp), error |-> ""]
      ELSE [ok |-> FALSE, rune |-> Nil, error |-> "Invalid code point (out of range)"]

is_utf16_high_surrogate(code_point) ==
  code_point.hi = 0 /\ code_point.lo >= 55296 /\ code_point.lo <= 56319

\* Bitwise or of two naturals.
RECURSIVE BitOr(_, _)
BitOr(a, b) ==
  IF a = 0 THEN b ELSE IF b = 0 THEN a
  ELSE 2 * BitOr(a \div 2, b \div 2) + (IF a % 2 = 1 \/ b % 2 = 1 THEN 1 ELSE 0)

\* 0x10000 + (((high - 0xD800) << 10) | (low - 0xDC00)) in unsigned int
\* arithmetic: every intermediate value is taken modulo 2^32, half by half.
\* Only called with a high surrogate, so high.hi = 0 and the shift is < 2^20.
utf16_surrogates_to_code_point(high_surrogate, low_surrogate) ==
  With((high_surrogate.lo - 55296) * 1024, LAMBDA shifted :
  With(U32(low_surrogate.hi + 65536 - (IF low_surrogate.lo < 56320 THEN 1 ELSE 0),
           low_surrogate.lo + 65536 - 56320), LAMBDA difference :
    U32(BitOr(shifted \div 65536, difference.hi) + 1,
        BitOr(shifted % 65536, difference.lo))))

HexLength(rune) == IF rune = "u" THEN 4 ELSE IF rune = "x" THEN 2 ELSE 8

read_hex_escape_sequence(s, p, length) ==
  With(ReadHexSequence(s, p, length, U32(0, 0)), LAMBDA code_point :
    IF ~code_point.ok
    THEN [ok |-> FALSE, value |-> <<>>, p |-> code_point.p, error |-> code_point.error]
    ELSE
    With(ReadOne(s, code_point.p, "\\"), LAMBDA backslash :
    With(ReadAny(s, backslash.p, {"u", "x", "U"}), LAMBDA next :
    With(ReadHexSequence(s, next.p, HexLength(next.rune), U32(0, 0)), LAMBDA low_code_point :
    With(is_utf16_high_surrogate(code_point.value) /\ backslash.ok /\ next.rune # Nil,
         LAMBDA pairing :
    \* Without `u`, `x` or `U` after the backslash the reader seeks back;
    \* without a backslash it has not moved.
    With(IF pairing THEN low_code_point.p ELSE code_point.p, LAMBDA after :
    With(code_point_to_utf8(
           IF pairing
           THEN utf16_surrogates_to_code_point(code_point.value, low_code_point.value)
           ELSE code_point.value), LAMBDA rune :
      IF pairing /\ ~low_code_point.ok
      THEN [ok |-> FALSE, value |-> <<>>, p |-> low_code_point.p,
            error |-> low_code_point.error]
      ELSE IF ~rune.ok THEN [ok |-> FALSE, value |-> <<>>, p |-> after, error |-> rune.error]
      ELSE [ok |-> TRUE, value |-> <<rune.rune>>, p |-> after, error |-> ""])))))))

\* The value is the returned std::string as a sequence of runes: "\0" is the
\* C string literal whose first character is the terminator, i.e. empty.
read_escape_sequence(s, p) ==
  LET escape_char == Read(s, p)
      c == escape_char.rune
      Is(value) == [ok |-> TRUE, value |-> value, p |-> escape_char.p, error |-> ""]
  IN  IF c = Nil
      THEN [ok |-> FALSE, value |-> <<>>, p |-> escape_char.p,
            error |-> "Expected escape sequence, got end of input"]
      ELSE IF c = "\\" THEN Is(<<"\\">>)
      ELSE IF c = "b" THEN Is(<<"U+0008">>)
      ELSE IF c = "f" THEN Is(<<"\f">>)
      ELSE IF c = "n" THEN Is(<<"\n">>)
      ELSE IF c = "r" THEN Is(<<"\r">>)
      ELSE IF c = "t" THEN Is(<<"\t">>)
      ELSE IF c = "v" THEN Is(<<VT>>)
      ELSE IF c = "0" THEN Is(<<>>)
      ELSE IF c = "a" THEN Is(<<"U+0007">>)
      ELSE IF c = "e" THEN Is(<<"U+001B">>)
      ELSE IF c \in {"u", "x", "U"} THEN read_hex_escape_sequence(s, escape_char.p, HexLength(c))
      ELSE IF c \in newline_runes
      THEN [ok |-> TRUE, value |-> <<>>, error |-> "",
            p |-> IF c = "\r" THEN ReadOne(s, escape_char.p, "\n").p ELSE escape_char.p]
      ELSE Is(<<c>>)

(***************************************************************************)
(* Quoteless strings                                                       *)
(***************************************************************************)

\* The reading loop of read_quoteless_string.
RECURSIVE ReadQuotelessRun(_, _, _, _)
ReadQuotelessRun(s, p, string_builder, is_named_literal_possible) ==
  With(Peek(s, p), LAMBDA next :
    IF next = "\\"
    THEN With(read_escape_sequence(s, p + 1), LAMBDA escape_sequence_result :
           IF ~escape_sequence_result.ok
           THEN [ok |-> FALSE, string_builder |-> string_builder,
                 p |-> escape_sequence_result.p, error |-> escape_sequence_result.error,
                 is_named_literal_possible |-> FALSE]
           ELSE ReadQuotelessRun(s, escape_sequence_result.p,
                                 string_builder \o escape_sequence_result.value, FALSE))
    ELSE IF next = Nil \/ next \in reserved_runes \/ next \in newline_runes
    THEN [ok |-> TRUE, string_builder |-> string_builder, p |-> p, error |-> "",
          is_named_literal_possible |-> is_named_literal_possible]
    ELSE ReadQuotelessRun(s, p + 1, Append(string_builder, next), is_named_literal_possible))

\* Trim leading whitespace: a reader over string_builder reads forward to
\* the first non-whitespace rune (or the end) and everything before it is erased.
RECURSIVE TrimLeading(_, _)
TrimLeading(string_builder, original_position) ==
  With(Read(string_builder, original_position), LAMBDA next :
    IF next.rune = Nil \/ next.rune \notin whitespace_runes
    THEN SubSeq(string_builder, original_position + 1, Len(string_builder))
    ELSE TrimLeading(string_builder, next.p))

\* Trim trailing whitespace: a second reader, sought to the end, reads in
\* reverse to the first rune read_reverse does not return as whitespace, and
\* everything from the position before that read on is erased.
RECURSIVE TrimTrailing(_, _)
TrimTrailing(string_builder, original_position) ==
  With(ReadReverse(string_builder, original_position), LAMBDA last :
    IF last.rune = Nil \/ last.rune \notin whitespace_runes
    THEN SubSeq(string_builder, 1, original_position)
    ELSE TrimTrailing(string_builder, last.p))

\* The end of read_quoteless_string: the named literals, else a string.
NamedLiteralOrString(string_builder, is_named_literal_possible) ==
  IF is_named_literal_possible /\ string_builder = <<"n", "u", "l", "l">>
  THEN Tok("null", <<>>)
  ELSE IF is_named_literal_possible /\ string_builder = <<"t", "r", "u", "e">>
  THEN Tok("true_bool", <<>>)
  ELSE IF is_named_literal_possible /\ string_builder = <<"f", "a", "l", "s", "e">>
  THEN Tok("false_bool", <<>>)
  ELSE Tok("string", string_builder)

read_quoteless_string(s, p, initial_chars) ==
  With(ReadQuotelessRun(s, p, initial_chars, TRUE), LAMBDA run :
    IF ~run.ok THEN [tok |-> Fail(run.error), p |-> run.p]
    ELSE IF run.string_builder = <<>> THEN [tok |-> Fail("Empty quoteless string"), p |-> run.p]
    ELSE With(TrimLeading(run.string_builder, 0), LAMBDA leading :
           [tok |-> NamedLiteralOrString(TrimTrailing(leading, Len(leading)),
                                         run.is_named_literal_possible),
            p |-> run.p]))

\* The whitespace loop of detect_quoteless_string: stopped by a newline
\* (newline |-> TRUE), by a rune that is no whitespace or by the end.
RECURSIVE DetectWhitespace(_, _, _)
DetectWhitespace(s, p, whitespace_builder) ==
  With(Peek(s, p), LAMBDA next :
    IF next = Nil \/ next \in newline_runes \/ next \notin whitespace_runes
    THEN [newline |-> next # Nil /\ next \in newline_runes,
          whitespace_builder |-> whitespace_builder, p |-> p]
    ELSE DetectWhitespace(s, p + 1, Append(whitespace_builder, next)))

detect_quoteless_string(s, p) ==
  With(DetectWhitespace(s, p, <<>>), LAMBDA w :
  With(Peek(s, w.p), LAMBDA next_char :
    [found |-> ~w.newline /\ next_char # Nil
               /\ (next_char = "\\" \/ next_char \notin reserved_runes),
     whitespace_builder |-> w.whitespace_builder, p |-> w.p]))

(***************************************************************************)
(* Numbers                                                                 *)
(***************************************************************************)

DecimalDigits == <<"0", "1", "2", "3", "4", "5", "6", "7", "8", "9">>
BinaryDigits == <<"0", "1">>
OctalDigits == <<"0", "1", "2", "3", "4", "5", "6", "7">>

\* The reading loop of read_number_no_exponent.
RECURSIVE ReadDigits(_, _, _, _, _)
ReadDigits(s, p, number_builder, base_digits, is_fraction) ==
  With(Peek(s, p), LAMBDA next :
    IF next = Nil THEN [ok |-> TRUE, number_builder |-> number_builder, p |-> p, error |-> ""]
    ELSE IF DigitIndex(base_digits, to_ascii_lower(next)) # 0 \/ next = "_"
    THEN ReadDigits(s, p + 1, Append(number_builder, next), base_digits, is_fraction)
    ELSE IF next = "."
    THEN IF is_fraction
         THEN [ok |-> FALSE, number_builder |-> Append(number_builder, next), p |-> p + 1,
               error |-> "Duplicate . in number"]
         ELSE ReadDigits(s, p + 1, Append(number_builder, next), base_digits, TRUE)
    ELSE [ok |-> TRUE, number_builder |-> number_builder, p |-> p, error |-> ""])

\* The checks of read_number_no_exponent on what its loop has read.
CheckDigits(r) ==
  IF ~r.ok THEN r
  ELSE IF r.number_builder = <<>> THEN [r EXCEPT !.ok = FALSE, !.error = "Empty number"]
  ELSE IF \A i \in 1..Len(r.number_builder) : r.number_builder[i] \in {".", "-", "+", "_"}
  THEN [r EXCEPT !.ok = FALSE, !.error = "Number must have at least one digit"]
  ELSE IF r.number_builder[Len(r.number_builder)] = "_"
  THEN [r EXCEPT !.ok = FALSE, !.error = "Trailing _ in number"]
  ELSE r

read_number_no_exponent(s, p, number_builder, base_digits, has_base_specifier) ==
  IF ~has_base_specifier /\ Peek(s, p) = "_"
  THEN [ok |-> FALSE, number_builder |-> number_builder, p |-> p, error |-> "Leading _ in number"]
  ELSE CheckDigits(ReadDigits(s, p, number_builder, base_digits, FALSE))

\* The base specifier of read_number after the leading zero.
BaseDigitsOf(rune) ==
  IF rune = Nil THEN DecimalDigits
  ELSE IF rune \in {"x", "X"} THEN HexDigits
  ELSE IF rune \in {"b", "B"} THEN BinaryDigits
  ELSE OctalDigits

\* The exponent of read_number, after the mantissa main_result.
ReadExponent(s, main_result, base_digits, has_base_specifier) ==
  IF main_result.number_builder[Len(main_result.number_builder)] \in {"e", "E"}
  THEN \* Hexadecimal exponent: the e is already read as a digit
       With(ReadAny(s, main_result.p, {"+", "-"}), LAMBDA exponent_sign :
         IF exponent_sign.rune = Nil THEN main_result
         ELSE read_number_no_exponent(s, exponent_sign.p,
                                      Append(main_result.number_builder, exponent_sign.rune),
                                      base_digits, has_base_specifier))
  ELSE With(ReadAny(s, main_result.p, {"e", "E"}), LAMBDA exponent_char :
         IF exponent_char.rune = Nil THEN main_result
         ELSE With(ReadAny(s, exponent_char.p, {"-", "+"}), LAMBDA exponent_sign :
                read_number_no_exponent(
                  s, exponent_sign.p,
                  Append(main_result.number_builder, exponent_char.rune)
                    \o (IF exponent_sign.rune # Nil THEN <<exponent_sign.rune>> ELSE <<>>),
                  base_digits, has_base_specifier)))

read_number(s, p) ==
  With(ReadAny(s, p, {"-", "+"}), LAMBDA sign :
  With(ReadOne(s, sign.p, "0"), LAMBDA zero :
  With(IF zero.ok THEN ReadAny(s, zero.p, {"x", "X", "b", "B", "o", "O"})
       ELSE [rune |-> Nil, p |-> zero.p], LAMBDA base_char :
  With(read_number_no_exponent(
         s, base_char.p,
         (IF sign.rune # Nil THEN <<sign.rune>> ELSE <<>>)
           \o (IF zero.ok THEN <<"0">> ELSE <<>>)
           \o (IF base_char.rune # Nil THEN <<base_char.rune>> ELSE <<>>),
         BaseDigitsOf(base_char.rune), base_char.rune # Nil), LAMBDA main_result :
    IF ~main_result.ok THEN main_result
    ELSE ReadExponent(s, main_result, BaseDigitsOf(base_char.rune), base_char.rune # Nil)))))

read_number_or_quoteless_string(s, p) ==
  With(read_number(s, p), LAMBDA number :
    IF number.ok
    THEN With(detect_quoteless_string(s, number.p), LAMBDA detected :
           IF detected.found
           THEN read_quoteless_string(s, detected.p,
                                      number.number_builder \o detected.whitespace_builder)
           ELSE [tok |-> Tok("number", number.number_builder), p |-> detected.p])
    ELSE read_quoteless_string(s, number.p, number.number_builder))

(***************************************************************************)
(* Quoted strings                                                          *)
(*                                                                         *)
(* The passes over a multi-quoted body work on byte offsets; the model     *)
(* counts runes, which is the same for a body of one-byte runes.           *)
(***************************************************************************)

Repeat(rune, n) == [i \in 1..n |-> rune]

\* std::string::erase(pos, count) on a sequence; pos > size() throws
\* std::out_of_range, which in a noexcept function is std::terminate.
CanErase(b, pos) == pos <= Len(b)
Erase(b, pos, count) == SubSeq(b, 1, pos) \o SubSeq(b, pos + count + 1, Len(b))

\* The reading loop of read_string.
RECURSIVE ReadStringBody(_, _, _, _, _, _)
ReadStringBody(s, p, start_quote, start_quote_counter, end_quote_counter, string_builder) ==
  With(Read(s, p), LAMBDA next :
    IF next.rune = Nil
    THEN [ok |-> FALSE, string_builder |-> string_builder, p |-> next.p,
          error |-> "Expected end of string, got end of input"]
    ELSE IF next.rune = start_quote
    THEN IF end_quote_counter + 1 = start_quote_counter
         THEN [ok |-> TRUE, string_builder |-> string_builder, p |-> next.p, error |-> ""]
         ELSE ReadStringBody(s, next.p, start_quote, start_quote_counter,
                             end_quote_counter + 1, string_builder)
    ELSE \* Partial end quote was actually part of string
    With(string_builder \o Repeat(start_quote, end_quote_counter), LAMBDA b :
      IF next.rune = "\\"
      THEN With(read_escape_sequence(s, next.p), LAMBDA escape_sequence_result :
             IF ~escape_sequence_result.ok
             THEN [ok |-> FALSE, string_builder |-> b, p |-> escape_sequence_result.p,
                   error |-> escape_sequence_result.error]
             ELSE ReadStringBody(s, escape_sequence_result.p, start_quote,
                                 start_quote_counter, 0, b \o escape_sequence_result.value))
      ELSE ReadStringBody(s, next.p, start_quote, start_quote_counter, 0,
                          Append(b, next.rune))))

\* Pass 1: count leading whitespace -> newline.  `outer` is peek() of the
\* reader of the input (not of the body), as the code has it: when the
\* newline is CR and outer is LF, one more rune of the body is read and
\* `index` becomes the position after it (or, at the end of the body, the
\* failed tellg() of -1, so that index + 1 wraps to 0).
RECURSIVE DedentPass1(_, _, _)
DedentPass1(b, pos, outer) ==
  With(Read(b, pos), LAMBDA next :
    IF next.rune = Nil THEN [has |-> FALSE, counter |-> 0]
    ELSE IF next.rune \in newline_runes
    THEN IF next.rune = "\r" /\ outer = "\n"
         THEN With(Read(b, next.p), LAMBDA joined :
                [has |-> TRUE, counter |-> IF joined.rune = Nil THEN 0 ELSE joined.p + 1])
         ELSE [has |-> TRUE, counter |-> pos + 1]
    ELSE IF next.rune \notin whitespace_runes THEN [has |-> FALSE, counter |-> 0]
    ELSE DedentPass1(b, next.p, outer))

\* Pass 2: count trailing newline -> whitespace.
RECURSIVE DedentPass2(_, _, _, _, _, _)
DedentPass2(b, pos, outer, has, last_newline_index, trailing_whitespace_counter) ==
  With(Read(b, pos), LAMBDA next :
    IF next.rune = Nil
    THEN [has |-> has, last_newline_index |-> last_newline_index,
          trailing_whitespace_counter |-> trailing_whitespace_counter]
    ELSE IF next.rune \in newline_runes
    THEN DedentPass2(b, IF next.rune = "\r" /\ outer = "\n" THEN Read(b, next.p).p ELSE next.p,
                     outer, TRUE, pos, 0)
    ELSE IF next.rune \in whitespace_runes
    THEN DedentPass2(b, next.p, outer, has, last_newline_index, trailing_whitespace_counter + 1)
    ELSE DedentPass2(b, next.p, outer, FALSE, last_newline_index, 0))

\* An erasure of pass 5 and the rest of the pass, or the throw.
RECURSIVE DedentPass5(_, _, _, _, _, _)
EraseAndGoOn(original, pos, string_builder, from, count, trailing_whitespace_counter) ==
  IF ~CanErase(string_builder, from)
  THEN [string_builder |-> string_builder, threw |-> TRUE]
  ELSE DedentPass5(original, pos, Erase(string_builder, from, count), FALSE, count,
                   trailing_whitespace_counter)

\* Pass 5: strip line-leading whitespace.  The reader runs over `original`,
\* its own copy of the body as it was after pass 4, while the erasures are
\* made in string_builder at the offsets of that copy.
DedentPass5(original, pos, string_builder, is_line_leading_whitespace,
            line_leading_whitespace_counter, trailing_whitespace_counter) ==
  With(Read(original, pos), LAMBDA next :
    IF next.rune = Nil THEN [string_builder |-> string_builder, threw |-> FALSE]
    ELSE IF next.rune \in newline_runes
    THEN DedentPass5(original, next.p, string_builder, TRUE, 0, trailing_whitespace_counter)
    ELSE IF ~is_line_leading_whitespace
    THEN DedentPass5(original, next.p, string_builder, FALSE,
                     line_leading_whitespace_counter, trailing_whitespace_counter)
    ELSE IF next.rune \in whitespace_runes
    THEN IF line_leading_whitespace_counter + 1 # trailing_whitespace_counter
         THEN DedentPass5(original, next.p, string_builder, TRUE,
                          line_leading_whitespace_counter + 1, trailing_whitespace_counter)
         ELSE EraseAndGoOn(original, next.p, string_builder,
                           next.p - (line_leading_whitespace_counter + 1),
                           line_leading_whitespace_counter + 1, trailing_whitespace_counter)
    ELSE EraseAndGoOn(original, next.p, string_builder,
                      pos - line_leading_whitespace_counter,
                      line_leading_whitespace_counter, trailing_whitespace_counter))

\* Passes 3 to 5, given what passes 1 and 2 counted.
DedentPasses3To5(string_builder, pass1, pass2) ==
  IF ~pass1.has \/ ~pass2.has THEN [string_builder |-> string_builder, threw |-> FALSE]
  ELSE With(Erase(Erase(string_builder, pass2.last_newline_index,
                        Len(string_builder) - pass2.last_newline_index),
                  0, pass1.counter), LAMBDA pass4 :
         IF pass2.trailing_whitespace_counter = 0
         THEN [string_builder |-> pass4, threw |-> FALSE]
         ELSE DedentPass5(pass4, 0, pass4, TRUE, 0, pass2.trailing_whitespace_counter))

\* Passes 1 to 5 on the body of a string that started with several quotes.
MultiQuotedDedent(string_builder, outer) ==
  DedentPasses3To5(string_builder, DedentPass1(string_builder, 0, outer),
                   DedentPass2(string_builder, 0, outer, FALSE, 0, 0))

RECURSIVE CountQuotes(_, _, _)
CountQuotes(s, p, start_quote) ==
  IF ReadOne(s, p, start_quote).ok THEN CountQuotes(s, p + 1, start_quote) ELSE p

\* A token and the position after it, from a production that always returns.
Returned(r) == [tok |-> r.tok, p |-> r.p, fault |-> "none"]

\* read_string after its opening quotes.  fault is "terminate" when an
\* erasure of pass 5 throws in this noexcept function: the call does not
\* return.
ReadQuoted(s, start_quote, after_quotes, start_quote_counter) ==
  IF start_quote_counter = 2
  THEN [tok |-> Tok("string", <<>>), p |-> after_quotes, fault |-> "none"]
  ELSE With(ReadStringBody(s, after_quotes, start_quote, start_quote_counter, 0, <<>>),
            LAMBDA body :
         IF ~body.ok THEN [tok |-> Fail(body.error), p |-> body.p, fault |-> "none"]
         ELSE IF start_quote_counter > 1
         THEN With(MultiQuotedDedent(body.string_builder, Peek(s, body.p)), LAMBDA dedent :
                [tok |-> Tok("string", dedent.string_builder), p |-> body.p,
                 fault |-> IF dedent.threw THEN "terminate" ELSE "none"])
         ELSE [tok |-> Tok("string", body.string_builder), p |-> body.p, fault |-> "none"])

read_string(s, p) ==
  With(ReadAny(s, p, {"\"", "'"}), LAMBDA start_quote :
    IF start_quote.rune = Nil THEN Returned(read_quoteless_string(s, p, <<>>))
    ELSE With(CountQuotes(s, start_quote.p, start_quote.rune), LAMBDA after_quotes :
           ReadQuoted(s, start_quote.rune, after_quotes, 1 + (after_quotes - start_quote.p))))

read_primitive_element(s, p) ==
  With(Peek(s, p), LAMBDA next :
    IF next = Nil
    THEN [tok |-> Fail("Expected primitive element, got end of input"), p |-> p,
          fault |-> "none"]
    ELSE IF DigitIndex(DecimalDigits, next) # 0 \/ next \in {"-", "+", "."}
    THEN Returned(read_number_or_quoteless_string(s, p))
    ELSE IF next \in {"\"", "'"} THEN read_string(s, p)
    ELSE Returned(read_quoteless_string(s, p, <<>>)))

\* What a call leaves behind when two calls in a row may fail to return.
Worse(f, g) ==
  IF f = "terminate" \/ g = "terminate" THEN "terminate"
  ELSE IF f = "undefined" \/ g = "undefined" THEN "undefined" ELSE "none"

(***************************************************************************)
(* Elements, objects, properties, arrays                                   *)
(*                                                                         *)
(* A production returns [toks, p, fault, nested]: the tokens, the position *)
(* of the reader afterwards, whether the call may fail to return ("none",  *)
(* "undefined" behaviour, or std::"terminate"), and the observation        *)
(* `nested`: some read_element called for an array item or a property      *)
(* value turned its string into the first name of a braceless object.      *)
(* read_element adds `promoted`: this very call did so.                    *)
(***************************************************************************)

Ret(toks, p, fault, is_nested) == [toks |-> toks, p |-> p, fault |-> fault, nested |-> is_nested]

\* What read_comments_and_whitespace returned, as a production's return.
Quiet(cw) == Ret(cw.toks, cw.p, "none", FALSE)

\* What read_element returned to read_property or read_item.
Value(element) ==
  Ret(element.toks, element.p, element.fault, element.nested \/ element.promoted)

\* `so_far` after the loop over the tokens of the production `sub`.
Merge(so_far, sub) ==
  Ret(Collect(so_far.toks, sub.toks), sub.p, Worse(so_far.fault, sub.fault),
      so_far.nested \/ sub.nested)

\* The loop every production runs over the tokens of a production it calls,
\* and what follows it: the production returns at a failure and goes on with
\* Rest otherwise.
Then(so_far, sub, Rest(_)) ==
  IF HasFailure(sub.toks) THEN Merge(so_far, sub) ELSE Rest(Merge(so_far, sub))

\* read_property_name once it has the string.
ReadColon(s, p, string, fault) ==
  With(ReadCommentsAndWhitespace(s, p), LAMBDA cw :
    IF HasFailure(cw.toks) THEN Ret(Collect(<<>>, cw.toks), cw.p, fault, FALSE)
    ELSE With(ReadOne(s, cw.p, ":"), LAMBDA colon :
           IF ~colon.ok
           THEN Ret(Append(cw.toks, Fail("Expected : after property name in object")),
                    cw.p, fault, FALSE)
           ELSE Ret(Append(cw.toks, Tok("property_name", string)), colon.p, fault, FALSE)))

read_property_name(s, p, has_string, string) ==
  IF has_string THEN ReadColon(s, p, string, "none")
  ELSE With(read_string(s, p), LAMBDA string_token :
         IF ~string_token.tok.ok
         THEN Ret(<<string_token.tok>>, string_token.p, string_token.fault, FALSE)
         ELSE ReadColon(s, string_token.p, string_token.tok.value, string_token.fault))

RECURSIVE read_element(_, _, _)
RECURSIVE read_object(_, _, _)
RECURSIVE ReadObjectLoop(_, _, _)
RECURSIVE read_braceless_object(_, _, _, _, _)
RECURSIVE ReadBracelessObjectLoop(_, _, _)
RECURSIVE read_property(_, _, _, _, _)
RECURSIVE ReadPropertyValue(_, _, _)
RECURSIVE read_array(_, _, _)
RECURSIVE ReadArrayLoop(_, _, _)
RECURSIVE read_item(_, _, _)
RECURSIVE ReadPrimitiveOrBraceless(_, _, _)

\* What read_element returns: the comments before the element, then the
\* tokens of `r`.
Element(comments, r, is_promoted) ==
  [toks |-> Collect(comments, r.toks), p |-> r.p, fault |-> r.fault, nested |-> r.nested,
   promoted |-> is_promoted]

\* `inc` is options.incomplete_inputs.
read_element(s, inc, p) ==
  With(ReadCommentsAndWhitespace(s, p), LAMBDA cw :
    IF HasFailure(cw.toks)
    THEN Element(Collect(<<>>, cw.toks), Ret(<<>>, cw.p, "none", FALSE), FALSE)
    ELSE With(Peek(s, cw.p), LAMBDA next :
           IF next = Nil
           THEN Element(cw.toks, Ret(<<Fail("Expected token, got end of input")>>,
                                     cw.p, "none", FALSE), FALSE)
           ELSE IF next = "{" THEN Element(cw.toks, read_object(s, inc, cw.p), FALSE)
           ELSE IF next = "[" THEN Element(cw.toks, read_array(s, inc, cw.p), FALSE)
           ELSE ReadPrimitiveOrBraceless(s, inc, cw)))

\* The last branch of read_element: a primitive value, or the braceless
\* object its string starts.  On a failed property name the tokens read so
\* far are pushed onto the vector being iterated: undefined unless that
\* vector is empty.
ReadPrimitiveOrBraceless(s, inc, cw) ==
  With(read_primitive_element(s, cw.p), LAMBDA token :
    IF ~token.tok.ok \/ token.tok.type # "string"
    THEN Element(cw.toks, Ret(<<token.tok>>, token.p, token.fault, FALSE), FALSE)
    ELSE With(read_property_name(s, token.p, TRUE, token.tok.value), LAMBDA name :
           IF HasFailure(name.toks)
           THEN Element(cw.toks,
                        Ret(<<token.tok>>, name.p,
                            Worse(token.fault,
                                  IF Len(name.toks) > 1 THEN "undefined" ELSE "none"),
                            FALSE),
                        FALSE)
           ELSE With(read_braceless_object(s, inc, name.p, TRUE, name.toks),
                     LAMBDA braceless :
                  Element(cw.toks, [braceless EXCEPT !.fault = Worse(token.fault, @)], TRUE))))

\* read_property after the property name.
ReadPropertyValue(s, inc, so_far) ==
  Then(so_far, Quiet(ReadCommentsAndWhitespace(s, so_far.p)), LAMBDA before :
  Then(before, Value(read_element(s, inc, before.p)), LAMBDA element :
  Then(element, Quiet(ReadCommentsAndWhitespace(s, element.p)), LAMBDA after :
    \* Optional comma
    [after EXCEPT !.p = ReadOne(s, after.p, ",").p])))

read_property(s, inc, p, has_property_name_tokens, property_name_tokens) ==
  IF has_property_name_tokens
  THEN ReadPropertyValue(s, inc, Ret(property_name_tokens, p, "none", FALSE))
  ELSE Then(Ret(<<>>, p, "none", FALSE), read_property_name(s, p, FALSE, <<>>),
            LAMBDA name : ReadPropertyValue(s, inc, name))

\* read_item pushing a PropertyName before its element, as if the item were
\* a property.
read_named_item(s, inc, p) ==
  Then(Ret(<<Tok("property_name", <<>>)>>, p, "none", FALSE),
       Value(read_element(s, inc, p)), LAMBDA element :
  Then(element, Quiet(ReadCommentsAndWhitespace(s, element.p)), LAMBDA after :
    [after EXCEPT !.p = ReadOne(s, after.p, ",").p]))

\* read_item without the optional comma it reads after the item.
read_item_and_no_comma(s, inc, p) ==
  Then(Ret(<<>>, p, "none", FALSE), Value(read_element(s, inc, p)), LAMBDA element :
  Then(element, Quiet(ReadCommentsAndWhitespace(s, element.p)), LAMBDA after : after))

read_item(s, inc, p) ==
  Then(Ret(<<>>, p, "none", FALSE), Value(read_element(s, inc, p)), LAMBDA element :
  Then(element, Quiet(ReadCommentsAndWhitespace(s, element.p)), LAMBDA after :
    \* Optional comma
    [after EXCEPT !.p = ReadOne(s, after.p, ",").p]))

\* The while (true) loop of read_object, entered with what was read so far.
ReadObjectLoop(s, inc, so_far) ==
  Then(so_far, Quiet(ReadCommentsAndWhitespace(s, so_far.p)), LAMBDA before :
    With(Peek(s, before.p), LAMBDA next :
      IF next = Nil
      THEN [before EXCEPT !.toks =
              Append(@, IF inc THEN Tok("end_object", <<>>)
                        ELSE Fail("Expected } to end object, got end of input"))]
      ELSE IF next = "}"
      THEN [before EXCEPT !.toks = Append(@, Tok("end_object", <<>>)), !.p = @ + 1]
      ELSE Then(before, read_property(s, inc, before.p, FALSE, <<>>),
                LAMBDA property : ReadObjectLoop(s, inc, property))))

read_object(s, inc, p) ==
  IF ~ReadOne(s, p, "{").ok
  THEN With(read_braceless_object(s, inc, p, FALSE, <<>>), LAMBDA braceless :
         [braceless EXCEPT !.toks = Collect(<<>>, braceless.toks)])
  ELSE ReadObjectLoop(s, inc, Ret(<<Tok("start_object", <<>>)>>, p + 1, "none", FALSE))

\* The while (true) loop of read_braceless_object.
ReadBracelessObjectLoop(s, inc, so_far) ==
  Then(so_far, Quiet(ReadCommentsAndWhitespace(s, so_far.p)), LAMBDA before :
    IF Peek(s, before.p) = Nil
    THEN [before EXCEPT !.toks = Append(@, Tok("end_object", <<>>))]
    ELSE Then(before, read_property(s, inc, before.p, FALSE, <<>>),
              LAMBDA property : ReadBracelessObjectLoop(s, inc, property)))

read_braceless_object(s, inc, p, has_property_name_tokens, property_name_tokens) ==
  IF ~has_property_name_tokens
  THEN ReadBracelessObjectLoop(s, inc, Ret(<<Tok("start_object", <<>>)>>, p, "none", FALSE))
  ELSE Then(Ret(<<Tok("start_object", <<>>)>>, p, "none", FALSE),
            read_property(s, inc, p, TRUE, property_name_tokens),
            LAMBDA first : ReadBracelessObjectLoop(s, inc, first))

\* The while (true) loop of read_array.
ReadArrayLoop(s, inc, so_far) ==
  Then(so_far, Quiet(ReadCommentsAndWhitespace(s, so_far.p)), LAMBDA before :
    With(Peek(s, before.p), LAMBDA next :
      IF next = Nil
      THEN [before EXCEPT !.toks =
              Append(@, IF inc THEN Tok("end_array", <<>>)
                        ELSE Fail("Expected ] to end array, got end of input"))]
      ELSE IF next = "]"
      THEN [before EXCEPT !.toks = Append(@, Tok("end_array", <<>>)), !.p = @ + 1]
      ELSE Then(before, read_item(s, inc, before.p),
                LAMBDA item : ReadArrayLoop(s, inc, item))))

\* read_array without the StartArray token it pushes after the bracket.
read_array_without_start(s, inc, p) ==
  IF ~ReadOne(s, p, "[").ok THEN Ret(<<Fail("Expected [ to start array")>>, p, "none", FALSE)
  ELSE ReadArrayLoop(s, inc, Ret(<<>>, p + 1, "none", FALSE))

read_array(s, inc, p) ==
  IF ~ReadOne(s, p, "[").ok THEN Ret(<<Fail("Expected [ to start array")>>, p, "none", FALSE)
  ELSE ReadArrayLoop(s, inc, Ret(<<Tok("start_array", <<>>)>>, p + 1, "none", FALSE))

(***************************************************************************)
(* jsonh_number_parser                                                     *)
(*                                                                         *)
(* A long double is modelled exactly, as m * 10^e with m an integer not    *)
(* divisible by 10 (0 is m = 0, e = 0); a product with a power of ten      *)
(* whose exponent is no integer keeps that exponent in `x` (<<>> if none). *)
(***************************************************************************)

RECURSIVE Normal(_, _)
Normal(m, e) ==
  IF m = 0 THEN [m |-> 0, e |-> 0, x |-> <<>>]
  ELSE IF m % 10 = 0 THEN Normal(m \div 10, e + 1)
  ELSE [m |-> m, e |-> e, x |-> <<>>]

RECURSIVE Pow10(_)
Pow10(n) == IF n = 0 THEN 1 ELSE 10 * Pow10(n - 1)

\* The value of a run of decimal digits.
RECURSIVE DigitsValue(_, _)
DigitsValue(digits, value) ==
  IF digits = <<>> THEN value
  ELSE DigitsValue(Tail(digits), 10 * value + DigitIndex(DecimalDigits, Head(digits)) - 1)

\* The longest prefix of `text` from position i on made of decimal digits.
RECURSIVE DigitRun(_, _)
DigitRun(text, i) ==
  IF i <= Len(text) /\ DigitIndex(DecimalDigits, text[i]) # 0
  THEN <<text[i]>> \o DigitRun(text, i + 1) ELSE <<>>

\* The value of the exponent strtold reads at position i, 0 if there is none.
ExponentValue(text, i) ==
  IF i <= Len(text) /\ text[i] \in {"e", "E"}
  THEN With(i + 1 <= Len(text) /\ text[i + 1] \in {"-", "+"}, LAMBDA exponent_signed :
         (IF exponent_signed /\ text[i + 1] = "-" THEN -1 ELSE 1)
         * DigitsValue(DigitRun(text, IF exponent_signed THEN i + 2 ELSE i + 1), 0))
  ELSE 0

\* string_to_number: std::strtold reads the longest prefix of the form
\* [sign] digits [. digits] [e [sign] digits] and gives 0 when there is none.
string_to_number(text) ==
  With(IF text # <<>> /\ text[1] \in {"-", "+"} THEN 2 ELSE 1, LAMBDA first :
  With(DigitRun(text, first), LAMBDA whole :
  With(first + Len(whole) <= Len(text) /\ text[first + Len(whole)] = ".", LAMBDA dotted :
  With(IF dotted THEN DigitRun(text, first + Len(whole) + 1) ELSE <<>>, LAMBDA fraction :
    IF whole = <<>> /\ fraction = <<>> THEN Normal(0, 0)
    ELSE Normal((IF text[1] = "-" THEN -1 ELSE 1) * DigitsValue(whole \o fraction, 0),
                ExponentValue(text, first + Len(whole) + (IF dotted THEN 1 ELSE 0)
                                    + Len(fraction))
                - Len(fraction))))))

RECURSIVE DecimalString(_)
DecimalString(n) ==
  IF n < 10 THEN <<DecimalDigits[n + 1]>>
  ELSE Append(DecimalString(n \div 10), DecimalDigits[(n % 10) + 1])

RECURSIVE DigitCount(_)
DigitCount(n) == IF n < 10 THEN 1 ELSE 1 + DigitCount(n \div 10)

\* Trailing zeros of a digit string removed, as %g does.
RECURSIVE StripZeros(_)
StripZeros(digits) ==
  IF digits # <<>> /\ digits[Len(digits)] = "0"
  THEN StripZeros(SubSeq(digits, 1, Len(digits) - 1)) ELSE digits

\* The six significant digits of n >= 10^6 and its decimal exponent, as
\* d.ddddde+XX without the trailing zeros of the fraction.
Scientific(six, exponent) ==
  <<six[1]>>
  \o (IF StripZeros(SubSeq(six, 2, 6)) = <<>> THEN <<>>
      ELSE <<".">> \o StripZeros(SubSeq(six, 2, 6)))
  \o <<"e", "+">> \o (IF exponent < 10 THEN <<"0">> ELSE <<>>) \o DecimalString(exponent)

\* number_to_string of a whole value n >= 0: operator<< with the default
\* precision of 6 significant digits, i.e. plain digits below 10^6 and
\* d.ddddde+XX, rounded, from there on.
Unsigned(n) ==
  IF n < 1000000 THEN DecimalString(n)
  ELSE With(DigitCount(n), LAMBDA count :
       With((n + Pow10(count - 6) \div 2) \div Pow10(count - 6), LAMBDA rounded :
         IF rounded = 1000000 THEN Scientific(DecimalString(100000), count)
         ELSE Scientific(DecimalString(rounded), count - 1)))

number_to_string(value) ==
  IF value < 0 THEN <<"-">> \o Unsigned(-value) ELSE Unsigned(value)

NumOk(value) == [ok |-> TRUE, value |-> value, error |-> ""]

NumError(message) == [ok |-> FALSE, value |-> Normal(0, 0), error |-> message]

\* The integer a whole long double stands for.
IntegerOf(value) == value.m * Pow10(value.e)

\* The loop of parse_whole_number: integer = integer * base + digit_int.
\* -1 stands for the "Invalid digit" return.
RECURSIVE AddColumns(_, _, _)
AddColumns(digits, base_digits, integer) ==
  IF digits = <<>> THEN integer
  ELSE LET digit_int == DigitIndex(base_digits, to_ascii_lower(Head(digits)))
       IN  IF digit_int = 0 THEN -1
           ELSE AddColumns(Tail(digits), base_digits, integer * Len(base_digits) + digit_int - 1)

parse_whole_number(digits, base_digits) ==
  IF base_digits = DecimalDigits THEN NumOk(string_to_number(digits))
  ELSE With(digits # <<>> /\ digits[1] \in {"-", "+"}, LAMBDA signed :
       With(AddColumns(IF signed THEN Tail(digits) ELSE digits, base_digits, 0),
            LAMBDA integer :
         IF integer = -1 THEN NumError("Invalid digit")
         ELSE NumOk(Normal((IF signed /\ digits[1] = "-" THEN -1 ELSE 1) * integer, 0))))

\* The index (from 1) of the first element of `text` in `set`, 0 if none.
RECURSIVE FindFirstOf(_, _, _)
FindFirstOf(text, set, i) ==
  IF i > Len(text) THEN 0
  ELSE IF text[i] \in set THEN i
  ELSE FindFirstOf(text, set, i + 1)

RECURSIVE LeadingZeroes(_)
LeadingZeroes(text) ==
  IF text # <<>> /\ Head(text) = "0" THEN <<"0">> \o LeadingZeroes(Tail(text)) ELSE <<>>

\* parse_fractional_number after the dot is found: the parts are parsed as
\* whole numbers and joined again as decimal text.
CombineParts(whole_part, fraction_part, base_digits) ==
  With(parse_whole_number(whole_part, base_digits), LAMBDA whole :
    IF ~whole.ok THEN whole
    ELSE With(parse_whole_number(fraction_part, base_digits), LAMBDA fraction :
           IF ~fraction.ok THEN fraction
           ELSE NumOk(string_to_number(
                  number_to_string(IntegerOf(whole.value)) \o <<".">>
                  \o LeadingZeroes(fraction_part)
                  \o number_to_string(IntegerOf(fraction.value))))))

parse_fractional_number(digits, base_digits) ==
  IF base_digits = DecimalDigits THEN NumOk(string_to_number(digits))
  ELSE With(FindFirstOf(digits, {"."}, 1), LAMBDA dot_index :
         IF dot_index = 0 THEN parse_whole_number(digits, base_digits)
         ELSE CombineParts(SubSeq(digits, 1, dot_index - 1),
                           SubSeq(digits, dot_index + 1, Len(digits)), base_digits))

\* An exponent search that takes the first e, whatever follows it.
RECURSIVE FindFirstE(_, _)
FindFirstE(digits, index) ==
  IF index > Len(digits) THEN 0
  ELSE IF digits[index] \in {"e", "E"} THEN index
  ELSE FindFirstE(digits, index + 1)

\* The hexadecimal exponent search: an e counts only when a sign follows.
RECURSIVE FindHexExponent(_, _)
FindHexExponent(digits, index) ==
  IF index > Len(digits) THEN 0
  ELSE IF digits[index] \notin {"e", "E"} THEN FindHexExponent(digits, index + 1)
  ELSE IF index + 1 > Len(digits) \/ digits[index + 1] \notin {"+", "-"}
       THEN FindHexExponent(digits, index + 1)
  ELSE index

\* mantissa * pow(10, exponent)
TimesPowerOfTen(mantissa, exponent) ==
  IF mantissa.m = 0 \/ exponent.m = 0 THEN mantissa
  ELSE IF exponent.e >= 0 THEN Normal(mantissa.m, mantissa.e + IntegerOf(exponent))
  ELSE [m |-> mantissa.m, e |-> mantissa.e, x |-> <<exponent.m, exponent.e>>]

\* parse_fractional_number_with_exponent after the exponent is found.
MantissaAndExponent(mantissa_part, exponent_part, base_digits) ==
  With(parse_fractional_number(mantissa_part, base_digits), LAMBDA mantissa :
    IF ~mantissa.ok THEN mantissa
    ELSE With(parse_fractional_number(exponent_part, base_digits), LAMBDA exponent :
           IF ~exponent.ok THEN exponent
           ELSE NumOk(TimesPowerOfTen(mantissa.value, exponent.value))))

parse_fractional_number_with_exponent(digits, base_digits) ==
  With(IF DigitIndex(base_digits, "e") # 0 THEN FindHexExponent(digits, 1)
       ELSE FindFirstOf(digits, {"e", "E"}, 1), LAMBDA exponent_index :
    IF exponent_index = 0 THEN parse_fractional_number(digits, base_digits)
    ELSE MantissaAndExponent(SubSeq(digits, 1, exponent_index - 1),
                             SubSeq(digits, exponent_index + 1, Len(digits)), base_digits))

StartsWith(text, prefixes) ==
  Len(text) >= 2 /\ <<text[1], text[2]>> \in prefixes

\* The digits of the base a prefix (after the sign) announces.
BaseOf(unsigned) ==
  IF StartsWith(unsigned, {<<"0", "x">>, <<"0", "X">>}) THEN HexDigits
  ELSE IF StartsWith(unsigned, {<<"0", "b">>, <<"0", "B">>}) THEN BinaryDigits
  ELSE IF StartsWith(unsigned, {<<"0", "o">>, <<"0", "O">>}) THEN OctalDigits
  ELSE DecimalDigits

\* A parse that drops the sign it removed.
ParseUnsignedOnly(unsigned, sign) ==
  parse_fractional_number_with_exponent(
    IF BaseOf(unsigned) = DecimalDigits THEN unsigned ELSE SubSeq(unsigned, 3, Len(unsigned)),
    BaseOf(unsigned))

\* parse after the underscores and the sign are removed.
ParseUnsigned(unsigned, sign) ==
  With(BaseOf(unsigned), LAMBDA base_digits :
  With(parse_fractional_number_with_exponent(
         IF base_digits = DecimalDigits THEN unsigned
         ELSE SubSeq(unsigned, 3, Len(unsigned)), base_digits), LAMBDA number :
    IF ~number.ok THEN number
    ELSE NumOk([number.value EXCEPT !.m = sign * @])))

\* jsonh_number_parser::parse
parse(jsonh_number) ==
  With(SelectSeq(jsonh_number, LAMBDA c : c # "_"), LAMBDA erased :
    IF erased # <<>> /\ erased[1] \in {"-", "+"}
    THEN ParseUnsigned(Tail(erased), IF erased[1] = "-" THEN -1 ELSE 1)
    ELSE ParseUnsigned(erased, 1))

(***************************************************************************)
(* The tree builder                                                        *)
(*                                                                         *)
(* A json value is [k, v]: its kind and its content; an array's content is *)
(* the sequence of its items, an object's the function from its names to   *)
(* their values (nlohmann::json keeps an object as a std::map).            *)
(***************************************************************************)

JNull == [k |-> "null", v |-> <<>>]

JBool(b) == [k |-> "boolean", v |-> b]

JString(string) == [k |-> "string", v |-> string]

JNumber(number) == [k |-> "number", v |-> number]

JArray(elements) == [k |-> "array", v |-> elements]

JObject(members) == [k |-> "object", v |-> members]

\* What parse_element returns: the value or the error, and whether the call
\* returns at all (an exception leaving a noexcept function ends the program).
Parsed(value) == [ok |-> TRUE, value |-> value, error |-> "", fault |-> "none"]

ParseError(message) == [ok |-> FALSE, value |-> JNull, error |-> message, fault |-> "none"]

ParseTerminate == [ok |-> FALSE, value |-> JNull, error |-> "", fault |-> "terminate"]

\* The submit_node lambda when current_nodes is not empty: the node goes into
\* the copy at the top of the stack.  `bad` is the json::type_error the
\* library throws for push_back on an object or a name on an array.
submit_node(current_nodes, has_name, current_property_name, node) ==
  With(current_nodes[Len(current_nodes)], LAMBDA top :
    IF top.k # (IF has_name THEN "object" ELSE "array")
    THEN [bad |-> TRUE, current_nodes |-> current_nodes]
    ELSE [bad |-> FALSE,
          current_nodes |->
            [current_nodes EXCEPT ![Len(current_nodes)] =
               IF has_name THEN JObject((current_property_name :> node) @@ top.v)
               ELSE JArray(Append(top.v, node))]])

\* The start_node lambda: submit_node(node), then current_nodes.push(node); the
\* stack holds json values, so what is pushed is a copy of the node.
start_node(current_nodes, has_name, current_property_name, node) ==
  IF current_nodes = <<>> THEN [bad |-> FALSE, current_nodes |-> <<node>>]
  ELSE With(submit_node(current_nodes, has_name, current_property_name, node),
            LAMBDA submitted :
         [bad |-> submitted.bad, current_nodes |-> Append(submitted.current_nodes, node)])

RECURSIVE ParseLoop(_, _, _, _, _)

\* A primitive node: `if (submit_node(node)) { return node; } break;`
SubmitPrimitive(toks, i, current_nodes, has_name, current_property_name, node) ==
  IF current_nodes = <<>> THEN Parsed(node)
  ELSE With(submit_node(current_nodes, has_name, current_property_name, node),
            LAMBDA submitted :
         IF submitted.bad THEN ParseTerminate
         ELSE ParseLoop(toks, i + 1, submitted.current_nodes, FALSE, <<>>))

\* A StartObject or StartArray token: start_node(node).  At the root
\* submit_node returns before it resets the name.
StartContainer(toks, i, current_nodes, has_name, current_property_name, node) ==
  With(start_node(current_nodes, has_name, current_property_name, node), LAMBDA started :
    IF started.bad THEN ParseTerminate
    ELSE IF current_nodes = <<>>
    THEN ParseLoop(toks, i + 1, started.current_nodes, has_name, current_property_name)
    ELSE ParseLoop(toks, i + 1, started.current_nodes, FALSE, <<>>))

\* A Comment case that submits the text of the comment as a string.
CommentAsString(toks, i, current_nodes, has_name, current_property_name, token) ==
  SubmitPrimitive(toks, i, current_nodes, has_name, current_property_name,
                  JString(token.value))

\* The Comment case of the switch: `break;`
CommentCase(toks, i, current_nodes, has_name, current_property_name, token) ==
  ParseLoop(toks, i + 1, current_nodes, has_name, current_property_name)

\* The switch of parse_element on a token.
ParseToken(toks, i, current_nodes, has_name, current_property_name, token) ==
  IF token.type = "null"
  THEN SubmitPrimitive(toks, i, current_nodes, has_name, current_property_name, JNull)
  ELSE IF token.type = "true_bool"
  THEN SubmitPrimitive(toks, i, current_nodes, has_name, current_property_name, JBool(TRUE))
  ELSE IF token.type = "false_bool"
  THEN SubmitPrimitive(toks, i, current_nodes, has_name, current_property_name, JBool(FALSE))
  ELSE IF token.type = "string"
  THEN SubmitPrimitive(toks, i, current_nodes, has_name, current_property_name,
                       JString(token.value))
  ELSE IF token.type = "number"
  THEN With(parse(token.value), LAMBDA number :
         IF ~number.ok THEN ParseError(number.error)
         ELSE SubmitPrimitive(toks, i, current_nodes, has_name, current_property_name,
                              JNumber(number.value)))
  ELSE IF token.type = "start_object"
  THEN StartContainer(toks, i, current_nodes, has_name, current_property_name, JObject(<<>>))
  ELSE IF token.type = "start_array"
  THEN StartContainer(toks, i, current_nodes, has_name, current_property_name, JArray(<<>>))
  ELSE IF token.type \in {"end_object", "end_array"}
  THEN IF Len(current_nodes) > 1
       THEN ParseLoop(toks, i + 1, SubSeq(current_nodes, 1, Len(current_nodes) - 1),
                      has_name, current_property_name)
       ELSE IF current_nodes = <<>> THEN [ParseTerminate EXCEPT !.fault = "undefined"]
       ELSE Parsed(current_nodes[1])
  ELSE IF token.type = "property_name"
  THEN ParseLoop(toks, i + 1, current_nodes, TRUE, token.value)
  ELSE IF token.type = "comment"
  THEN CommentCase(toks, i, current_nodes, has_name, current_property_name, token)
  ELSE ParseError("Token type not implemented")

\* The loop of parse_element over the tokens of read_element, from token i on.
ParseLoop(toks, i, current_nodes, has_name, current_property_name) ==
  IF i > Len(toks) THEN ParseError("Expected token, got end of input")
  ELSE IF ~toks[i].ok THEN ParseError(toks[i].error)
  ELSE ParseToken(toks, i, current_nodes, has_name, current_property_name, toks[i])

\* parse_element, given what read_element returned.
parse_element(toks) == ParseLoop(toks, 1, <<>>, FALSE, <<>>)

(***************************************************************************)
(* The reader as a state machine: a stream is written, a reader is         *)
(* constructed on it and parse_element runs, first read_element, then the  *)
(* loop over its tokens.                                                   *)
(***************************************************************************)

\* The longest stream written rune by rune.
MaxLen == 4

\* The runes a stream is written from.
Alphabet == {"[", "]", "{", "}", ":", ",", "a", "1", "\n", "/", "#"}

NoResult == [ok |-> FALSE, value |-> JNull, error |-> "<not run>", fault |-> "none"]

NoDocument == [k |-> "none", v |-> <<>>]

\* The default of jsonh_reader_options::max_depth.
DefaultMaxDepth == 64

\* enum struct jsonh_version.
latest == 0
v1 == 1
v2 == 2

\* Whether a call with this fault returns: one that throws never does, one
\* with undefined behaviour may or may not.
Returns(fault) ==
  IF fault = "none" THEN {TRUE} ELSE IF fault = "undefined" THEN {TRUE, FALSE} ELSE {FALSE}

Init ==
  /\ input = <<>>
  /\ incomplete_inputs = FALSE
  /\ max_depth = DefaultMaxDepth
  /\ parse_single_element = FALSE
  /\ version = latest
  /\ property_name = <<>>
  /\ char_is_signed = TRUE
  /\ calls = <<>>
  /\ pc = "input"
  /\ tokens = <<>>
  /\ position = 0
  /\ nested = FALSE
  /\ result = NoResult
  /\ document = NoDocument
  /\ alternative = <<>>

\* One more rune is written to the stream.
TypeRune ==
  /\ pc = "input"
  /\ Len(input) < MaxLen
  /\ \E rune \in Alphabet : input' = Append(input, rune)
  /\ UNCHANGED <<incomplete_inputs, max_depth, parse_single_element, version,
                 property_name,
                 char_is_signed, calls, pc, tokens, position, nested, result, document,
                 alternative>>

\* jsonh_reader(string, options).read_element(), as parse_element calls it.
ReadElement ==
  /\ pc = "input"
  /\ \E option \in BOOLEAN :
       LET r == read_element(input, option, 0)
       IN  /\ incomplete_inputs' = option
           /\ \E returns \in Returns(r.fault) :
                /\ pc' = IF returns THEN "read" ELSE "aborted"
                /\ tokens' = IF returns THEN r.toks ELSE <<>>
                /\ position' = r.p
                /\ nested' = (returns /\ r.nested)
  /\ UNCHANGED <<input, max_depth, parse_single_element, version,
                 property_name,
                 char_is_signed, calls, result, document, alternative>>

\* The loop of parse_element over the tokens.
ParseElement ==
  /\ pc = "read"
  /\ LET r == parse_element(tokens)
     IN  \E returns \in Returns(r.fault) :
           /\ pc' = IF returns THEN "done" ELSE "aborted"
           /\ result' = IF returns THEN r ELSE NoResult
  /\ UNCHANGED <<input, incomplete_inputs, max_depth, parse_single_element, version,
                 property_name,
                 char_is_signed, calls, tokens, position, nested, document, alternative>>

Next == TypeRune \/ ReadElement \/ ParseElement

Spec == Init /\ [][Next]_vars

(***************************************************************************)
(* Streams written from a json value: as JSON text (RFC 8259), compact or  *)
(* spaced, and, for an object, as the lines of a braceless object.         *)
(***************************************************************************)

\* The most nodes (values, containers included) of a written json value.
MaxNodes == 3

Scalars ==
  {JNull, JBool(TRUE), JBool(FALSE), JNumber(Normal(-15, -1)), JString(<<"b">>)}

\* The names of the properties of a written object, in the order of the map.
Names == <<<<"a">>, <<"c">>>>

RECURSIVE ValuesOfSize(_)
RECURSIVE SeqsOfSize(_)
RECURSIVE MembersOfSize(_, _)

\* The json values of exactly n nodes.
ValuesOfSize(n) ==
  IF n < 1 THEN {}
  ELSE (IF n = 1 THEN Scalars ELSE {})
       \cup {JArray(elements) : elements \in SeqsOfSize(n - 1)}
       \cup {JObject(members) : members \in MembersOfSize(Names, n - 1)}

\* The sequences of json values of n nodes in all.
SeqsOfSize(n) ==
  IF n = 0 THEN {<<>>}
  ELSE UNION {{<<first>> \o rest : first \in ValuesOfSize(k), rest \in SeqsOfSize(n - k)} :
              k \in 1..n}

\* The members, under some of `names`, of n nodes in all.
MembersOfSize(names, n) ==
  IF names = <<>> THEN (IF n = 0 THEN {<<>>} ELSE {})
  ELSE MembersOfSize(Tail(names), n)
       \cup UNION {{(Head(names) :> first) @@ rest :
                      first \in ValuesOfSize(k), rest \in MembersOfSize(Tail(names), n - k)} :
                   k \in 1..n}

Documents == UNION {ValuesOfSize(n) : n \in 1..MaxNodes}

\* The decimal text of a number m * 10^e.
NumberText(number) ==
  With(DecimalString(IF number.m < 0 THEN -number.m ELSE number.m), LAMBDA digits :
    (IF number.m < 0 THEN <<"-">> ELSE <<>>)
    \o (IF number.e >= 0 THEN digits \o Repeat("0", number.e)
        ELSE IF Len(digits) > -number.e
        THEN SubSeq(digits, 1, Len(digits) + number.e) \o <<".">>
             \o SubSeq(digits, Len(digits) + number.e + 1, Len(digits))
        ELSE <<"0", ".">> \o Repeat("0", -number.e - Len(digits)) \o digits))

Quoted(string) == <<"\"">> \o string \o <<"\"">>

RECURSIVE Json(_, _)
RECURSIVE JsonElements(_, _)
RECURSIVE JsonMembers(_, _, _)

\* The JSON text of a value; `gap` is the whitespace written after every
\* bracket, comma and colon and before every closing bracket.
Json(value, gap) ==
  IF value.k = "null" THEN <<"n", "u", "l", "l">>
  ELSE IF value.k = "boolean"
  THEN (IF value.v THEN <<"t", "r", "u", "e">> ELSE <<"f", "a", "l", "s", "e">>)
  ELSE IF value.k = "number" THEN NumberText(value.v)
  ELSE IF value.k = "string" THEN Quoted(value.v)
  ELSE IF value.k = "array" THEN <<"[">> \o gap \o JsonElements(value.v, gap) \o <<"]">>
  ELSE <<"{">> \o gap \o JsonMembers(value.v, Names, gap) \o <<"}">>

JsonElements(elements, gap) ==
  IF elements = <<>> THEN <<>>
  ELSE Json(Head(elements), gap)
       \o (IF Len(elements) > 1 THEN <<",">> ELSE <<>>) \o gap
       \o JsonElements(Tail(elements), gap)

JsonMembers(members, names, gap) ==
  IF names = <<>> THEN <<>>
  ELSE IF Head(names) \notin DOMAIN members THEN JsonMembers(members, Tail(names), gap)
  ELSE Quoted(Head(names)) \o <<":">> \o gap \o Json(members[Head(names)], gap)
       \o (IF \E i \in 2..Len(names) : names[i] \in DOMAIN members THEN <<",">> ELSE <<>>)
       \o gap \o JsonMembers(members, Tail(names), gap)

\* The lines of a braceless object: `a: b`, then `c : d`, a string value
\* written without quotes.
RECURSIVE BracelessLines(_, _)
BracelessLines(members, names) ==
  IF names = <<>> THEN <<>>
  ELSE IF Head(names) \notin DOMAIN members THEN BracelessLines(members, Tail(names))
  ELSE Head(names) \o (IF Head(names) = Names[1] THEN <<":", " ">> ELSE <<" ", ":", " ">>)
       \o (IF members[Head(names)].k = "string" THEN members[Head(names)].v
           ELSE Json(members[Head(names)], <<>>))
       \o (IF \E i \in 2..Len(names) : names[i] \in DOMAIN members THEN <<"\n">> ELSE <<>>)
       \o BracelessLines(members, Tail(names))

Braceless(value) == BracelessLines(value.v, Names)

\* The text of a value with a comment, a hash comment or a block comment,
\* wherever JSON allows whitespace.
Commented(value) == {Json(value, <<"#", "\n">>), Json(value, <<"/", "*", "*", "/">>)}

\* The streams a json value is written as.
Writings(value) ==
  {Json(value, <<>>), Json(value, <<" ">>), Json(value, <<"\n">>)}
  \cup Commented(value)
  \cup (IF value.k = "object" /\ value.v # <<>> THEN {Braceless(value)} ELSE {})

InitDocument ==
  /\ document \in Documents
  /\ input \in Writings(document)
  /\ incomplete_inputs = FALSE
  /\ max_depth = DefaultMaxDepth
  /\ parse_single_element = FALSE
  /\ version = latest
  /\ property_name = <<>>
  /\ char_is_signed = TRUE
  /\ calls = <<>>
  /\ pc = "input"
  /\ tokens = <<>>
  /\ position = 0
  /\ nested = FALSE
  /\ result = NoResult
  /\ alternative = <<>>

NextDocument == ReadElement \/ ParseElement

SpecDocument == InitDocument /\ [][NextDocument]_vars

(***************************************************************************)
(* Streams written one item or property a line, with the commas and        *)
(* without them.                                                           *)
(***************************************************************************)

RECURSIVE Lines(_, _)
RECURSIVE LinesOfItems(_, _)
RECURSIVE LinesOfMembers(_, _, _)

\* The text of a value with every item and property on a line of its own, a
\* string without quotes; sep.comma is written after every item but the
\* last, after sep.pad, and after the last one too if sep.trailing.
Lines(value, sep) ==
  IF value.k = "string" THEN value.v
  ELSE IF value.k = "array" THEN <<"[", "\n">> \o LinesOfItems(value.v, sep) \o <<"]">>
  ELSE IF value.k = "object"
  THEN <<"{", "\n">> \o LinesOfMembers(value.v, Names, sep) \o <<"}">>
  ELSE Json(value, <<>>)

LinesOfItems(elements, sep) ==
  IF elements = <<>> THEN <<>>
  ELSE Lines(Head(elements), sep) \o sep.pad
       \o (IF Len(elements) > 1 \/ sep.trailing THEN sep.comma ELSE <<>>) \o <<"\n">>
       \o LinesOfItems(Tail(elements), sep)

LinesOfMembers(members, names, sep) ==
  IF names = <<>> THEN <<>>
  ELSE IF Head(names) \notin DOMAIN members THEN LinesOfMembers(members, Tail(names), sep)
  ELSE Head(names) \o <<":", " ">> \o Lines(members[Head(names)], sep) \o sep.pad
       \o (IF sep.trailing \/ \E i \in 2..Len(names) : names[i] \in DOMAIN members
           THEN sep.comma ELSE <<>>)
       \o <<"\n">> \o LinesOfMembers(members, Tail(names), sep)

\* The arrays and objects that have an item or a property.
Containers == {value \in Documents : value.k \in {"array", "object"} /\ value.v # <<>>}

\* `input` is written with the commas, `alternative` without them.
InitComma ==
  /\ document \in Containers
  /\ \E pad \in {<<>>, <<" ">>}, trailing \in BOOLEAN :
       /\ input = Lines(document, [comma |-> <<",">>, pad |-> pad, trailing |-> trailing])
       /\ alternative = Lines(document, [comma |-> <<>>, pad |-> pad, trailing |-> trailing])
  /\ incomplete_inputs = FALSE
  /\ max_depth = DefaultMaxDepth
  /\ parse_single_element = FALSE
  /\ version = latest
  /\ property_name = <<>>
  /\ char_is_signed = TRUE
  /\ calls = <<>>
  /\ pc = "input"
  /\ tokens = <<>>
  /\ position = 0
  /\ nested = FALSE
  /\ result = NoResult

NextComma == ReadElement \/ ParseElement

SpecComma == InitComma /\ [][NextComma]_vars

(***************************************************************************)
(* Streams that start with a numeral, a named literal or a letter and go   *)
(* on with whitespace, letters, digits, escapes, a comma or a newline.     *)
(***************************************************************************)

\* The most runes written after the start of the stream.
MaxTail == 3

Heads ==
  {<<"6">>, <<"a">>, <<"n", "u", "l", "l">>, <<"t", "r", "u", "e">>,
   <<"f", "a", "l", "s", "e">>}

TailAlphabet == {" ", NBSP, "a", "5", ",", "\n", "\\"}

RECURSIVE Tails(_)
Tails(n) ==
  IF n = 0 THEN {<<>>}
  ELSE Tails(n - 1) \cup {Append(tail, rune) : tail \in Tails(n - 1), rune \in TailAlphabet}

InitQuoteless ==
  /\ \E head \in Heads, tail \in Tails(MaxTail) : input = head \o tail
  /\ incomplete_inputs = FALSE
  /\ max_depth = DefaultMaxDepth
  /\ parse_single_element = FALSE
  /\ version = latest
  /\ property_name = <<>>
  /\ char_is_signed = TRUE
  /\ calls = <<>>
  /\ pc = "input"
  /\ tokens = <<>>
  /\ position = 0
  /\ nested = FALSE
  /\ result = NoResult
  /\ document = NoDocument
  /\ alternative = <<>>

NextQuoteless == ReadElement \/ ParseElement

SpecQuoteless == InitQuoteless /\ [][NextQuoteless]_vars

(***************************************************************************)
(* Streams that end early: the JSON text of an array or object, cut after  *)
(* a bracket, a colon or a comma before its last rune.                     *)
(***************************************************************************)

\* The runes of a JSON text after which no value, name or literal is cut.
Punctuation == {"{", "}", "[", "]", ":", ","}

InitIncomplete ==
  /\ document \in Containers
  /\ \E cut \in 1..(Len(Json(document, <<>>)) - 1) :
       /\ Json(document, <<>>)[cut] \in Punctuation
       /\ input = SubSeq(Json(document, <<>>), 1, cut)
  /\ incomplete_inputs = FALSE
  /\ max_depth = DefaultMaxDepth
  /\ parse_single_element = FALSE
  /\ version = latest
  /\ property_name = <<>>
  /\ char_is_signed = TRUE
  /\ calls = <<>>
  /\ pc = "input"
  /\ tokens = <<>>
  /\ position = 0
  /\ nested = FALSE
  /\ result = NoResult
  /\ alternative = <<>>

NextIncomplete == ReadElement \/ ParseElement

SpecIncomplete == InitIncomplete /\ [][NextIncomplete]_vars

(***************************************************************************)
(* The options of parse_element that the reader of this revision declares   *)
(* and does not yet act on: max_depth and parse_single_element.  Their      *)
(* effect is taken from the description of the tree builder.                *)
(***************************************************************************)

\* The first token from i on that starts a container below `limit` open
\* ones, or 0: the builder keeps a counter of the open containers.
RECURSIVE ExceedsMaxDepth(_, _, _, _)
ExceedsMaxDepth(toks, i, depth, limit) ==
  IF i > Len(toks) THEN 0
  ELSE IF ~toks[i].ok THEN 0
  ELSE IF toks[i].type \in {"start_object", "start_array"}
    THEN IF depth + 1 > limit THEN i
         ELSE ExceedsMaxDepth(toks, i + 1, depth + 1, limit)
  ELSE IF toks[i].type \in {"end_object", "end_array"}
    THEN ExceedsMaxDepth(toks, i + 1, depth - 1, limit)
  ELSE ExceedsMaxDepth(toks, i + 1, depth, limit)

\* A builder that keeps no counter.
parse_element_ignoring_depth(toks, limit) == parse_element(toks)

\* The builder that counts: it builds as parse_element does up to the
\* container start that would exceed the limit, and fails there.
parse_element_max_depth(toks, limit) ==
  With(ExceedsMaxDepth(toks, 1, 0, limit), LAMBDA start :
    IF start = 0 THEN parse_element(toks)
    ELSE With(parse_element(SubSeq(toks, 1, start - 1)), LAMBDA before :
           IF before = ParseError("Expected token, got end of input")
           THEN ParseError("Exceeded max depth")
           ELSE before))

\* A builder that returns the root value whatever follows it.
ReadNothingMore(s, p, root) == root

\* After the root value: comments and whitespace are read and dropped, and
\* anything else is an error.
ReadEndOfElements(s, p, root) ==
  With(ReadCommentsAndWhitespace(s, p), LAMBDA trailing :
    IF HasFailure(trailing.toks) THEN ParseError(trailing.toks[FirstFailure(trailing.toks)].error)
    ELSE IF Peek(s, trailing.p) # Nil THEN ParseError("Expected end of elements")
    ELSE root)

\* parse_element under both options.
parse_element_with_options(s, toks, p, limit, single) ==
  With(parse_element_max_depth(toks, limit), LAMBDA root :
    IF root.ok /\ single THEN ReadEndOfElements(s, p, root) ELSE root)

ParseElementWithOptions ==
  /\ pc = "read"
  /\ With(parse_element_with_options(input, tokens, position, max_depth,
                                     parse_single_element), LAMBDA r :
       \E returns \in Returns(r.fault) :
         /\ pc' = IF returns THEN "done" ELSE "aborted"
         /\ result' = IF returns THEN r ELSE NoResult)
  /\ UNCHANGED <<input, incomplete_inputs, max_depth, parse_single_element, version,
                 property_name,
                 char_is_signed, calls, tokens, position, nested, document, alternative>>

MaxLimit == 2

MaxDepths == 0..MaxLimit \cup {DefaultMaxDepth}

InitDepth ==
  /\ document \in Documents
  /\ input = Json(document, <<>>)
  /\ incomplete_inputs = FALSE
  /\ max_depth \in MaxDepths
  /\ parse_single_element = FALSE
  /\ version = latest
  /\ property_name = <<>>
  /\ char_is_signed = TRUE
  /\ calls = <<>>
  /\ pc = "input"
  /\ tokens = <<>>
  /\ position = 0
  /\ nested = FALSE
  /\ result = NoResult
  /\ alternative = <<>>

NextDepth == ReadElement \/ ParseElementWithOptions

SpecDepth == InitDepth /\ [][NextDepth]_vars

\* What a stream may hold after its root element.
Trailing ==
  {<<>>, <<"\n">>, <<" ", "#", "c">>, <<"/", "*", "c", "*", "/", " ">>, <<" ", "1">>,
   <<"#", "c", "\n", "1">>, <<"]">>, <<",">>}

Roots == UNION {ValuesOfSize(n) : n \in 1..(MaxNodes - 1)}

InitSingle ==
  /\ document \in Roots
  /\ \E rest \in Trailing : input = Json(document, <<>>) \o rest
  /\ incomplete_inputs = FALSE
  /\ max_depth = DefaultMaxDepth
  /\ parse_single_element \in BOOLEAN
  /\ version = latest
  /\ property_name = <<>>
  /\ char_is_signed = TRUE
  /\ calls = <<>>
  /\ pc = "input"
  /\ tokens = <<>>
  /\ position = 0
  /\ nested = FALSE
  /\ result = NoResult
  /\ alternative = <<>>

NextSingle == ReadElement \/ ParseElementWithOptions

SpecSingle == InitSingle /\ [][NextSingle]_vars

(***************************************************************************)
(* find_property_value                                                     *)
(***************************************************************************)

\* The loop of find_property_value over the tokens read_element returned.
RECURSIVE FindPropertyName(_, _, _, _)
FindPropertyName(toks, i, current_depth, name) ==
  IF i > Len(toks) THEN FALSE
  ELSE IF ~toks[i].ok THEN FALSE
  ELSE IF toks[i].type \in {"start_object", "start_array"}
    THEN FindPropertyName(toks, i + 1, current_depth + 1, name)
  ELSE IF toks[i].type \in {"end_object", "end_array"}
    THEN FindPropertyName(toks, i + 1, current_depth - 1, name)
  ELSE IF toks[i].type = "property_name" /\ current_depth = 1 /\ toks[i].value = name
    THEN TRUE
  ELSE FindPropertyName(toks, i + 1, current_depth, name)

\* find_property_value: read_element returns its tokens in a vector, so
\* the whole element is read before the loop starts.
find_property_value(s, option, p, name) ==
  With(read_element(s, option, p), LAMBDA r :
    [found |-> FindPropertyName(r.toks, 1, 0, name), p |-> r.p, fault |-> r.fault])

FindPropertyValue ==
  /\ pc = "input"
  /\ With(find_property_value(input, incomplete_inputs, 0, property_name), LAMBDA r :
       \E returns \in Returns(r.fault) :
         /\ pc' = IF ~returns THEN "aborted" ELSE IF r.found THEN "found" ELSE "missing"
         /\ position' = r.p)
  /\ UNCHANGED <<input, incomplete_inputs, max_depth, parse_single_element, version,
                 property_name,
                 char_is_signed, calls, tokens, nested, result, document, alternative>>

\* The read_element that follows a successful find_property_value.
ReadValue ==
  /\ pc = "found"
  /\ With(read_element(input, incomplete_inputs, position), LAMBDA r :
       \E returns \in Returns(r.fault) :
         /\ pc' = IF returns THEN "value" ELSE "aborted"
         /\ tokens' = IF returns THEN r.toks ELSE <<>>
         /\ position' = r.p
         /\ nested' = (returns /\ r.nested))
  /\ UNCHANGED <<input, incomplete_inputs, max_depth, parse_single_element, version,
                 property_name,
                 char_is_signed, calls, result, document, alternative>>

Objects == {value \in Documents : value.k = "object" /\ value.v # <<>>}

InitFind ==
  /\ document \in Objects
  /\ input \in {Json(document, <<>>), Json(document, <<" ">>), Json(document, <<"\n">>)}
  /\ incomplete_inputs = FALSE
  /\ max_depth = DefaultMaxDepth
  /\ parse_single_element = FALSE
  /\ version = latest
  /\ property_name \in {Names[i] : i \in 1..Len(Names)} \cup {<<"z">>}
  /\ char_is_signed = TRUE
  /\ calls = <<>>
  /\ pc = "input"
  /\ tokens = <<>>
  /\ position = 0
  /\ nested = FALSE
  /\ result = NoResult
  /\ alternative = <<>>

NextFind == FindPropertyValue \/ ReadValue

SpecFind == InitFind /\ [][NextFind]_vars

(***************************************************************************)
(* utf8_reader over bytes.  A stream is a sequence of bytes 0..255 and the *)
(* position of the reader is what tellg reports: the offset of the next    *)
(* byte, or -1 once the stream has failed (nothing in the reader clears    *)
(* the failure, so every later read finds no byte and every later seek     *)
(* does nothing).                                                          *)
(***************************************************************************)

Failed == -1

\* (char)byte: char is signed in some builds and unsigned in others.
AsChar(byte, signed) == IF signed /\ byte >= 128 THEN byte - 256 ELSE byte

\* x / 16 on int: the quotient is truncated toward zero.
Quotient16(x) == IF x >= 0 THEN x \div 16 ELSE -((-x) \div 16)

\* x >> count on int: the sign is shifted in.
RECURSIVE ShiftRight(_, _)
ShiftRight(x, count) == IF count = 0 THEN x ELSE ShiftRight(x \div 2, count - 1)

get_utf8_sequence_length(first_byte, signed) ==
  ShiftRight(AsChar(first_byte, signed) - 160, 20 - Quotient16(AsChar(first_byte, signed)))
    + 2

is_utf8_first_byte(byte) == byte \notin 128..191

\* read: the first byte, and for a byte above 127 as many more bytes as
\* get_utf8_sequence_length says, fewer if the stream ends (which fails it).
read(s, p, signed) ==
  IF p = Failed \/ p >= Len(s) THEN [bytes |-> Nil, p |-> Failed]
  ELSE IF s[p + 1] <= 127 THEN [bytes |-> <<s[p + 1]>>, p |-> p + 1]
  ELSE With(get_utf8_sequence_length(s[p + 1], signed), LAMBDA sequence_length :
         IF p + 1 + sequence_length <= Len(s)
         THEN [bytes |-> SubSeq(s, p + 1, p + 1 + sequence_length),
               p |-> p + 1 + sequence_length]
         ELSE [bytes |-> SubSeq(s, p + 1, Len(s)), p |-> Failed])

\* read_reverse: up to four steps back, the bytes appended as they are met.
RECURSIVE ReadReverseLoop(_, _, _, _)
ReadReverseLoop(s, p, index, bytes) ==
  IF index = 4 THEN [bytes |-> Nil, p |-> p]
  ELSE IF p = Failed \/ p = 0 THEN [bytes |-> Nil, p |-> Failed]
  ELSE IF is_utf8_first_byte(s[p]) THEN [bytes |-> Append(bytes, s[p]), p |-> p - 1]
  ELSE ReadReverseLoop(s, p - 1, index + 1, Append(bytes, s[p]))

read_reverse(s, p) == ReadReverseLoop(s, p, 0, <<>>)

MaxRunes == 3

MaxCalls == 3

\* Well-formed runes of one, two, three and four bytes: a, U+00A0, U+2028
\* and U+1F600.
RuneBytes == {<<97>>, <<194, 160>>, <<226, 128, 168>>, <<240, 159, 152, 128>>}

RECURSIVE Utf8Streams(_)
Utf8Streams(n) ==
  IF n = 0 THEN {<<>>}
  ELSE Utf8Streams(n - 1)
       \cup {rune \o rest : rune \in RuneBytes, rest \in Utf8Streams(n - 1)}

\* The offsets at which a rune of a well-formed stream starts, and its end.
RECURSIVE Boundaries(_, _)
Boundaries(s, p) ==
  IF p >= Len(s) THEN {p}
  ELSE {p} \cup Boundaries(s, p + (CHOOSE n \in 1..4 :
                                     \E rune \in RuneBytes :
                                       Len(rune) = n /\ rune[1] = s[p + 1]))

InitRunes ==
  /\ input \in Utf8Streams(MaxRunes) \ {<<>>}
  /\ position \in Boundaries(input, 0)
  /\ incomplete_inputs = FALSE
  /\ max_depth = DefaultMaxDepth
  /\ parse_single_element = FALSE
  /\ version = latest
  /\ property_name = <<>>
  /\ char_is_signed \in BOOLEAN
  /\ calls = <<>>
  /\ pc = "input"
  /\ tokens = <<>>
  /\ nested = FALSE
  /\ result = NoResult
  /\ document = NoDocument
  /\ alternative = <<>>

Called(name, r) == [call |-> name, from |-> position, bytes |-> r.bytes, to |-> r.p]

RuneRead ==
  /\ Len(calls) < MaxCalls
  /\ With(read(input, position, char_is_signed), LAMBDA r :
       /\ position' = r.p
       /\ calls' = Append(calls, Called("read", r)))
  /\ UNCHANGED <<input, incomplete_inputs, max_depth, parse_single_element, version,
                 property_name,
                 char_is_signed, pc, tokens, nested, result, document, alternative>>

RuneReadReverse ==
  /\ Len(calls) < MaxCalls
  /\ With(read_reverse(input, position), LAMBDA r :
       /\ position' = r.p
       /\ calls' = Append(calls, Called("read_reverse", r)))
  /\ UNCHANGED <<input, incomplete_inputs, max_depth, parse_single_element, version,
                 property_name,
                 char_is_signed, pc, tokens, nested, result, document, alternative>>

NextRunes == RuneRead \/ RuneReadReverse

SpecRunes == InitRunes /\ [][NextRunes]_vars

(***************************************************************************)
(* Multi-quoted strings written over several lines                         *)
(***************************************************************************)

MaxIndent == 3

MaxLines == 2

\* A line: some spaces, then text that starts with no space.
BodyLines ==
  {Repeat(" ", k) \o text : k \in 0..MaxIndent, text \in {<<>>, <<"a">>, <<"a", " ", "a">>}}

RECURSIVE BodiesOf(_)
BodiesOf(n) ==
  IF n = 0 THEN {<<>>}
  ELSE {<<line>> \o rest : line \in BodyLines, rest \in BodiesOf(n - 1)}

\* The lines, each followed by a newline.
RECURSIVE WrittenLines(_)
WrittenLines(lines) ==
  IF lines = <<>> THEN <<>> ELSE Head(lines) \o <<"\n">> \o WrittenLines(Tail(lines))

\* `document` holds the lines of the body and the indent of the closing
\* quotes; the body starts with `lead` and a newline.
InitDedent ==
  /\ \E n \in 1..MaxLines, indent \in 1..2, lead \in {<<>>, <<" ">>} :
       \E lines \in BodiesOf(n) :
         /\ document = [k |-> "lines", v |-> lines, indent |-> indent]
         /\ input = <<"\"", "\"", "\"">> \o lead \o <<"\n">> \o WrittenLines(lines)
                      \o Repeat(" ", indent) \o <<"\"", "\"", "\"">>
  /\ incomplete_inputs = FALSE
  /\ max_depth = DefaultMaxDepth
  /\ parse_single_element = FALSE
  /\ version = latest
  /\ property_name = <<>>
  /\ char_is_signed = TRUE
  /\ calls = <<>>
  /\ pc = "input"
  /\ tokens = <<>>
  /\ position = 0
  /\ nested = FALSE
  /\ result = NoResult
  /\ alternative = <<>>

NextDedent == ReadElement \/ ParseElement

SpecDedent == InitDedent /\ [][NextDedent]_vars

(***************************************************************************)
(* jsonh_number_parser::parse on written literals                          *)
(***************************************************************************)

MaxDigits == 3

Prefixes ==
  {<<"0", "x">>, <<"0", "X">>, <<"0", "b">>, <<"0", "B">>, <<"0", "o">>, <<"0", "O">>}

\* Some digits of the base a prefix announces.
DigitsOf(prefix) ==
  IF prefix[2] \in {"x", "X"} THEN {"0", "3", "5", "e", "E", "f"}
  ELSE IF prefix[2] \in {"b", "B"} THEN {"0", "1"}
  ELSE {"0", "7"}

RECURSIVE DigitStrings(_, _)
DigitStrings(digits, n) ==
  IF n = 0 THEN {<<>>}
  ELSE {<<digit>> \o rest : digit \in digits, rest \in DigitStrings(digits, n - 1)}

\* The digits with underscores: none, one before them, two after the first.
Underscored(digits) ==
  {digits, <<"_">> \o digits, <<Head(digits)>> \o <<"_", "_">> \o Tail(digits)}

\* `document` holds what the literal was written from.
InitNumber ==
  /\ \E sign \in {<<>>, <<"+">>, <<"-">>}, prefix \in Prefixes, n \in 1..MaxDigits :
       \E digits \in DigitStrings(DigitsOf(prefix), n) :
         /\ document = [k |-> "literal", sign |-> sign, prefix |-> prefix, v |-> digits]
         /\ input \in {sign \o prefix \o written : written \in Underscored(digits)}
                        \cup (IF prefix[2] \in {"x", "X"}
                              THEN {sign \o prefix \o digits \o <<"e", "+", "3">>}
                              ELSE {})
  /\ alternative = <<>>
  /\ incomplete_inputs = FALSE
  /\ max_depth = DefaultMaxDepth
  /\ parse_single_element = FALSE
  /\ version = latest
  /\ property_name = <<>>
  /\ char_is_signed = TRUE
  /\ calls = <<>>
  /\ pc = "input"
  /\ tokens = <<>>
  /\ position = 0
  /\ nested = FALSE
  /\ result = NoResult

\* The texts parse is called on, in order.
Texts == IF alternative = <<>> THEN <<input>> ELSE <<input, alternative>>

ParseNumber ==
  /\ Len(calls) < Len(Texts)
  /\ With(Texts[Len(calls) + 1], LAMBDA text :
       calls' = Append(calls, [call |-> "parse", text |-> text, number |-> parse(text)]))
  /\ UNCHANGED <<input, incomplete_inputs, max_depth, parse_single_element, version,
                 property_name,
                 char_is_signed, pc, tokens, position, nested, result, document,
                 alternative>>

NextNumber == ParseNumber

SpecNumber == InitNumber /\ [][NextNumber]_vars

\* Unsigned numeric texts of every base, and the same text under a sign.
UnsignedTexts ==
  UNION {{prefix \o written :
            written \in UNION {Underscored(digits) :
                                 digits \in UNION {DigitStrings(DigitsOf(prefix), n) :
                                                     n \in 1..(MaxDigits - 1)}}} :
         prefix \in Prefixes}
  \cup {<<"0", "x", "5", "e", "+", "3">>, <<"0", "x", "5", "e", "-", "3">>,
        <<"0", "x", "1", ".", "8">>, <<"0", "b", "1", ".", "1">>, <<"0">>, <<"7">>,
        <<"1", "5">>, <<"1", "_", "0">>, <<"1", ".", "5">>, <<"0", ".", "0", "5">>,
        <<"1", "e", "2">>, <<"1", ".", "5", "e", "3">>, <<"5", "E", "-", "2">>,
        <<".", "5">>, <<"5", ".">>}

InitSigned ==
  /\ input \in UnsignedTexts
  /\ alternative \in {<<"-">> \o input, <<"+">> \o input}
  /\ document = NoDocument
  /\ incomplete_inputs = FALSE
  /\ max_depth = DefaultMaxDepth
  /\ parse_single_element = FALSE
  /\ version = latest
  /\ property_name = <<>>
  /\ char_is_signed = TRUE
  /\ calls = <<>>
  /\ pc = "input"
  /\ tokens = <<>>
  /\ position = 0
  /\ nested = FALSE
  /\ result = NoResult

SpecSigned == InitSigned /\ [][NextNumber]_vars

(***************************************************************************)
(* Strings written with the escape of a high surrogate                     *)
(***************************************************************************)

\* The hex digits of n, `width` of them.
RECURSIVE HexRunes(_, _)
HexRunes(n, width) ==
  IF width = 0 THEN <<>> ELSE Append(HexRunes(n \div 16, width - 1), HexDigitUpper(n % 16))

\* An escape of the value: \u, \x or \U and its four, two or eight digits.
Escape(letter, value) == <<"\\", letter>> \o HexRunes(value, HexLength(letter))

HighSurrogates == {55296, 55357, 56319}

\* What follows the high surrogate: nothing, a letter, another escape, or
\* a hex escape of a low surrogate or of something else.
Followers ==
  {[escape |-> "none", value |-> 0, text |-> text] : text \in {<<>>, <<"a">>, <<"\\", "n">>}}
  \cup {[escape |-> letter, value |-> value, text |-> Escape(letter, value)] :
          letter \in {"u", "U"}, value \in {65, 55357, 56320, 56445, 57343, 57344}}
  \cup {[escape |-> "x", value |-> 65, text |-> Escape("x", 65)]}

\* `document` holds the surrogate and what was written after it.
InitSurrogate ==
  /\ \E high \in HighSurrogates, letter \in {"u", "U"}, next \in Followers :
       /\ document = [k |-> "surrogates", v |-> high, next |-> next]
       /\ input = <<"\"">> \o Escape(letter, high) \o next.text \o <<"\"">>
  /\ alternative = <<>>
  /\ incomplete_inputs = FALSE
  /\ max_depth = DefaultMaxDepth
  /\ parse_single_element = FALSE
  /\ version = latest
  /\ property_name = <<>>
  /\ char_is_signed = TRUE
  /\ calls = <<>>
  /\ pc = "input"
  /\ tokens = <<>>
  /\ position = 0
  /\ nested = FALSE
  /\ result = NoResult

NextSurrogate == ReadElement \/ ParseElement

SpecSurrogate == InitSurrogate /\ [][NextSurrogate]_vars

(***************************************************************************)
(* Streams that end inside a block comment                                 *)
(***************************************************************************)

\* The text before the comment: the places where read_comments_and_whitespace
\* is called (before an element, after a top-level string, between items,
\* after a property name, before a property value).
BeforeComment ==
  {<<>>, <<" ">>,
   <<"\"", "a", "\"">>, <<"\"", "a", "\"", " ">>, <<"a", " ">>,
   <<"[">>, <<"[", "1", ",">>, <<"[", "1", "\n">>,
   <<"{">>, <<"{", "\"", "a", "\"">>, <<"{", "a", ":">>, <<"{", "a", ":", "1", ",">>,
   <<"a", ":">>, <<"a", ":", "1", "\n">>}

\* The body of the comment, which never holds the closing delimiter.
OpenBodies == {<<>>, <<"x">>, <<"*">>, <<"/">>, <<"*", " ", "/">>, <<"\n", "]">>}

InitUnterminated ==
  /\ \E before \in BeforeComment, body \in OpenBodies :
       /\ document = [k |-> "unterminated", v |-> before, body |-> body]
       /\ input = before \o <<"/", "*">> \o body
  /\ alternative = <<>>
  /\ incomplete_inputs = FALSE
  /\ max_depth = DefaultMaxDepth
  /\ parse_single_element = FALSE
  /\ version = latest
  /\ property_name = <<>>
  /\ char_is_signed = TRUE
  /\ calls = <<>>
  /\ pc = "input"
  /\ tokens = <<>>
  /\ position = 0
  /\ nested = FALSE
  /\ result = NoResult

NextUnterminated == ReadElement \/ ParseElement

SpecUnterminated == InitUnterminated /\ [][NextUnterminated]_vars

(***************************************************************************)
(* Objects of one property whose name is written in several ways           *)
(***************************************************************************)

\* A name as written and the text it stands for.
WrittenNames ==
  {[text |-> <<"\"", "a", " ", "b", "\"">>, name |-> <<"a", " ", "b">>],
   [text |-> <<"'", "a", "\\", "t", "'">>, name |-> <<"a", "\t">>],
   [text |-> <<"\"", "\"">>, name |-> <<>>],
   [text |-> <<"\"", "n", "u", "l", "l", "\"">>, name |-> <<"n", "u", "l", "l">>],
   [text |-> <<"\"", " ", "a", "\"">>, name |-> <<" ", "a">>],
   [text |-> <<"a">>, name |-> <<"a">>],
   [text |-> <<"a", " ", "b">>, name |-> <<"a", " ", "b">>],
   [text |-> <<"a", " ", " ">>, name |-> <<"a">>],
   [text |-> <<"a", "\\", ":", "b">>, name |-> <<"a", ":", "b">>],
   [text |-> <<"1", "2">>, name |-> <<"1", "2">>],
   [text |-> <<"n", "u", "l", "\\", "l">>, name |-> <<"n", "u", "l", "l">>],
   [text |-> <<"n", "u", "l", "l">>, name |-> <<"n", "u", "l", "l">>],
   [text |-> <<"t", "r", "u", "e">>, name |-> <<"t", "r", "u", "e">>],
   [text |-> <<"f", "a", "l", "s", "e">>, name |-> <<"f", "a", "l", "s", "e">>],
   [text |-> <<"n", "u", "l", "l", "s">>, name |-> <<"n", "u", "l", "l", "s">>]}

\* The texts that, where an element is expected, are a number or a named
\* literal rather than a string that may start a braceless object.
WrittenValues ==
  {<<"1", "2">>, <<"n", "u", "l", "l">>, <<"t", "r", "u", "e">>, <<"f", "a", "l", "s", "e">>}

\* The property `name: c d` in braces, compact or spaced, and braceless.
PropertyTexts(text) ==
  {<<"{">> \o text \o <<":", "c", " ", "d", "}">>,
   <<"{", " ">> \o text \o <<" ", ":", " ", "c", " ", "d", " ", "}">>,
   <<"{", "\n">> \o text \o <<":", "c", " ", "d", "\n", "}">>}
  \cup (IF text \in WrittenValues THEN {} ELSE {text \o <<":", " ", "c", " ", "d">>})

InitName ==
  /\ \E written \in WrittenNames :
       /\ document = [k |-> "property", v |-> written.name, text |-> written.text]
       /\ input \in PropertyTexts(written.text)
  /\ alternative = <<>>
  /\ incomplete_inputs = FALSE
  /\ max_depth = DefaultMaxDepth
  /\ parse_single_element = FALSE
  /\ version = latest
  /\ property_name = <<>>
  /\ char_is_signed = TRUE
  /\ calls = <<>>
  /\ pc = "input"
  /\ tokens = <<>>
  /\ position = 0
  /\ nested = FALSE
  /\ result = NoResult

NextName == ReadElement \/ ParseElement

SpecName == InitName /\ [][NextName]_vars

(***************************************************************************)
(* options.version.  The reader of this revision declares the option and   *)
(* does not yet act on it: what version 2 adds to the primitive element    *)
(* (the verbatim prefix, the reserved rune @) is taken from the            *)
(* description of the grammar.                                             *)
(***************************************************************************)

supports_version(options_version, minimum_version) ==
  (IF options_version = latest THEN v2 ELSE options_version)
    >= (IF minimum_version = latest THEN v2 ELSE minimum_version)

reserved_runes_of(options_version) ==
  reserved_runes \cup (IF supports_version(options_version, v2) THEN {"@"} ELSE {})

\* The reading loop of the quoteless scanner: in a verbatim string a
\* backslash is a rune like any other.
RECURSIVE ReadQuotelessRunVersion(_, _, _, _, _, _)
ReadQuotelessRunVersion(s, p, string_builder, is_named_literal_possible, options_version, is_verbatim) ==
  With(Peek(s, p), LAMBDA next :
    IF next = "\\" /\ ~is_verbatim
    THEN With(read_escape_sequence(s, p + 1), LAMBDA escape_sequence_result :
           IF ~escape_sequence_result.ok
           THEN [ok |-> FALSE, string_builder |-> string_builder,
                 p |-> escape_sequence_result.p, error |-> escape_sequence_result.error,
                 is_named_literal_possible |-> FALSE]
           ELSE ReadQuotelessRunVersion(s, escape_sequence_result.p,
                                        string_builder \o escape_sequence_result.value,
                                        FALSE, options_version, is_verbatim))
    ELSE IF next = Nil \/ (next \in reserved_runes_of(options_version) /\ next # "\\")
            \/ next \in newline_runes
    THEN [ok |-> TRUE, string_builder |-> string_builder, p |-> p, error |-> "",
          is_named_literal_possible |-> is_named_literal_possible /\ ~is_verbatim]
    ELSE ReadQuotelessRunVersion(s, p + 1, Append(string_builder, next),
                                 is_named_literal_possible, options_version, is_verbatim))

read_quoteless_string_version(s, p, options_version, is_verbatim) ==
  With(ReadQuotelessRunVersion(s, p, <<>>, TRUE, options_version, is_verbatim), LAMBDA run :
    IF ~run.ok THEN [tok |-> Fail(run.error), p |-> run.p]
    ELSE IF run.string_builder = <<>> THEN [tok |-> Fail("Empty quoteless string"), p |-> run.p]
    ELSE With(TrimLeading(run.string_builder, 0), LAMBDA leading :
           [tok |-> NamedLiteralOrString(TrimTrailing(leading, Len(leading)),
                                         run.is_named_literal_possible),
            p |-> run.p]))

\* The reading loop of the quoted scanner in a verbatim string.
RECURSIVE ReadVerbatimBody(_, _, _, _, _, _)
ReadVerbatimBody(s, p, start_quote, start_quote_counter, end_quote_counter, string_builder) ==
  With(Read(s, p), LAMBDA next :
    IF next.rune = Nil
    THEN [ok |-> FALSE, string_builder |-> string_builder, p |-> next.p,
          error |-> "Expected end of string, got end of input"]
    ELSE IF next.rune = start_quote
    THEN IF end_quote_counter + 1 = start_quote_counter
         THEN [ok |-> TRUE, string_builder |-> string_builder, p |-> next.p, error |-> ""]
         ELSE ReadVerbatimBody(s, next.p, start_quote, start_quote_counter,
                               end_quote_counter + 1, string_builder)
    ELSE ReadVerbatimBody(s, next.p, start_quote, start_quote_counter, 0,
                          Append(string_builder \o Repeat(start_quote, end_quote_counter),
                                 next.rune)))

ReadVerbatimQuoted(s, start_quote, after_quotes, start_quote_counter) ==
  IF start_quote_counter = 2
  THEN [tok |-> Tok("string", <<>>), p |-> after_quotes, fault |-> "none"]
  ELSE With(ReadVerbatimBody(s, after_quotes, start_quote, start_quote_counter, 0, <<>>),
            LAMBDA body :
         IF ~body.ok THEN [tok |-> Fail(body.error), p |-> body.p, fault |-> "none"]
         ELSE IF start_quote_counter > 1
         THEN With(MultiQuotedDedent(body.string_builder, Peek(s, body.p)), LAMBDA dedent :
                [tok |-> Tok("string", dedent.string_builder), p |-> body.p,
                 fault |-> IF dedent.threw THEN "terminate" ELSE "none"])
         ELSE [tok |-> Tok("string", body.string_builder), p |-> body.p, fault |-> "none"])

\* The string after the verbatim symbol, which it must follow at once.
read_verbatim_string(s, p, options_version) ==
  With(Peek(s, p), LAMBDA next :
    IF next = Nil \/ next \in whitespace_runes \/ next \in {"#", "/"}
    THEN [tok |-> Fail("Expected string to immediately follow verbatim symbol"), p |-> p,
          fault |-> "none"]
    ELSE IF next \in {"\"", "'"}
    THEN With(CountQuotes(s, p + 1, next), LAMBDA after_quotes :
           ReadVerbatimQuoted(s, next, after_quotes, after_quotes - p))
    ELSE Returned(read_quoteless_string_version(s, p, options_version, TRUE)))

\* A reader that takes no notice of the version.
read_primitive_element_any_version(s, p, options_version) == read_primitive_element(s, p)

\* read_primitive_element under options.version.
read_primitive_element_version(s, p, options_version) ==
  With(Peek(s, p), LAMBDA next :
    IF ~supports_version(options_version, v2) THEN read_primitive_element(s, p)
    ELSE IF next = "@" THEN read_verbatim_string(s, p + 1, options_version)
    ELSE IF next = Nil \/ DigitIndex(DecimalDigits, next) # 0 \/ next \in {"-", "+", "."}
            \/ next \in {"\"", "'"}
    THEN read_primitive_element(s, p)
    ELSE Returned(read_quoteless_string_version(s, p, options_version, FALSE)))

\* jsonh_reader(string, options).read_element() on a primitive element.
ReadPrimitiveElementVersion ==
  /\ pc = "input"
  /\ With(read_primitive_element_version(input, 0, version), LAMBDA r :
       \E returns \in Returns(r.fault) :
         /\ pc' = IF returns THEN "read" ELSE "aborted"
         /\ tokens' = IF returns THEN <<r.tok>> ELSE <<>>
         /\ position' = r.p)
  /\ UNCHANGED <<input, incomplete_inputs, max_depth, parse_single_element, version,
                 property_name, char_is_signed, calls, nested, result, document,
                 alternative>>

\* The text of a string as written and, were its escapes processed, as decoded.
Contents ==
  {[raw |-> <<"a">>, decoded |-> <<"a">>],
   [raw |-> <<"a", "\\", "n", "b">>, decoded |-> <<"a", "\n", "b">>],
   [raw |-> <<"\\", "\\">>, decoded |-> <<"\\">>],
   [raw |-> <<"\\", "u", "0", "0", "4", "1">>, decoded |-> <<"A">>],
   [raw |-> <<"a", " ", "b">>, decoded |-> <<"a", " ", "b">>],
   [raw |-> <<"b", "\\", "t", "c">>, decoded |-> <<"b", "\t", "c">>],
   [raw |-> <<"n", "u", "l", "l">>, decoded |-> <<"n", "u", "l", "l">>]}

\* `document` holds the content and how it is written: in quotes or
\* quoteless after @, or ("plain") as a quoteless string followed by @c.
InitVerbatim ==
  /\ \E content \in Contents :
       \/ /\ document = [k |-> "verbatim", v |-> content.raw, decoded |-> content.decoded,
                         form |-> "quoted"]
          /\ \E quote \in {"\"", "'"} : input = <<"@", quote>> \o content.raw \o <<quote>>
       \/ /\ document = [k |-> "verbatim", v |-> content.raw, decoded |-> content.decoded,
                         form |-> "quoteless"]
          /\ input = <<"@">> \o content.raw
       \/ /\ document = [k |-> "verbatim", v |-> content.raw, decoded |-> content.decoded,
                         form |-> "plain"]
          /\ input = content.raw \o <<"@", "c">>
  /\ version \in {latest, v1, v2}
  /\ alternative = <<>>
  /\ incomplete_inputs = FALSE
  /\ max_depth = DefaultMaxDepth
  /\ parse_single_element = FALSE
  /\ property_name = <<>>
  /\ char_is_signed = TRUE
  /\ calls = <<>>
  /\ pc = "input"
  /\ tokens = <<>>
  /\ position = 0
  /\ nested = FALSE
  /\ result = NoResult

NextVerbatim == ReadPrimitiveElementVersion

SpecVerbatim == InitVerbatim /\ [][NextVerbatim]_vars

(***************************************************************************)
(* A top-level string followed by comments and no colon                    *)
(***************************************************************************)

\* Complete comments, one or two of them.
CommentTexts ==
  LET one == {<<"#", "x", "\n">>, <<"/", "*", "x", "*", "/">>, <<"/", "/", "\n">>}
  IN  one \cup {first \o second : first \in one, second \in one}

InitFallback ==
  /\ \E string \in {<<"a">>, <<"\"", "a", "\"">>, <<"'", "a", " ", "b", "'">>},
        gap \in {<<>>, <<" ">>},
        comments \in CommentTexts,
        rest \in {<<>>, <<"]">>, <<"b">>, <<",">>} :
       /\ document = [k |-> "fallback", v |-> string, comments |-> comments, rest |-> rest]
       /\ input = string \o gap \o comments \o rest
  /\ version = latest
  /\ alternative = <<>>
  /\ incomplete_inputs = FALSE
  /\ max_depth = DefaultMaxDepth
  /\ parse_single_element = FALSE
  /\ property_name = <<>>
  /\ char_is_signed = TRUE
  /\ calls = <<>>
  /\ pc = "input"
  /\ tokens = <<>>
  /\ position = 0
  /\ nested = FALSE
  /\ result = NoResult

NextFallback == ReadElement \/ ParseElement

SpecFallback == InitFallback /\ [][NextFallback]_vars

(***************************************************************************)
(* Multi-quoted strings of one line of text, with each kind of newline     *)
(***************************************************************************)

\* `document` holds the text of the line; the body is written as leading
\* whitespace, a newline, the indented line, a newline and the indent of
\* the closing quotes, and `after` follows the closing quotes.
InitLeading ==
  /\ \E lead \in {<<>>, <<" ">>, <<" ", "\t">>},
        newline \in {<<"\n">>, <<"\r", "\n">>, <<"\r">>, <<LS>>},
        text \in {<<"a">>, <<"a", " ", "b">>},
        indent \in {<<>>, <<" ">>},
        after \in {<<>>, <<"\n">>, <<" ">>, <<",">>} :
       /\ document = [k |-> "line", v |-> text, newline |-> newline, after |-> after]
       /\ input = <<"\"", "\"", "\"">> \o lead \o newline \o indent \o text \o newline
                  \o indent \o <<"\"", "\"", "\"">> \o after
  /\ version = latest
  /\ alternative = <<>>
  /\ incomplete_inputs = FALSE
  /\ max_depth = DefaultMaxDepth
  /\ parse_single_element = FALSE
  /\ property_name = <<>>
  /\ char_is_signed = TRUE
  /\ calls = <<>>
  /\ pc = "input"
  /\ tokens = <<>>
  /\ position = 0
  /\ nested = FALSE
  /\ result = NoResult

NextLeading == ReadElement \/ ParseElement

SpecLeading == InitLeading /\ [][NextLeading]_vars

(***************************************************************************)
(* Quoteless strings written with escapes                                  *)
(***************************************************************************)

\* The most pieces a quoteless string is written from.
MaxPieces == 2

\* A piece of a quoteless string as written and the runes it stands for.
Pieces ==
  {[text |-> <<"\\", " ">>, value |-> <<" ">>],
   [text |-> <<"\\", "n">>, value |-> <<"\n">>],
   [text |-> <<"\\", "t">>, value |-> <<"\t">>],
   [text |-> <<"\\", "\n">>, value |-> <<>>],
   [text |-> <<"\\", ",">>, value |-> <<",">>],
   [text |-> <<"a">>, value |-> <<"a">>]}

RECURSIVE PiecesOf(_)
PiecesOf(n) ==
  IF n = 0 THEN {[text |-> <<>>, value |-> <<>>]}
  ELSE {[text |-> piece.text \o rest.text, value |-> piece.value \o rest.value] :
          piece \in Pieces, rest \in PiecesOf(n - 1)}

\* `document` holds the runes the string stands for before it is trimmed;
\* the string is the root element or the item of an array, and is followed
\* by nothing, a space, a comma or a newline.
InitEmpty ==
  /\ \E n \in 1..MaxPieces :
       \E written \in PiecesOf(n), space \in {<<>>, <<" ">>},
          end \in {<<>>, <<",">>, <<"\n">>}, in_array \in BOOLEAN :
         /\ document = [k |-> "quoteless", v |-> written.value \o space,
                        in_array |-> in_array]
         /\ input = (IF in_array THEN <<"[">> ELSE <<>>) \o written.text \o space \o end
                    \o (IF in_array THEN <<"]">> ELSE <<>>)
  /\ version = latest
  /\ alternative = <<>>
  /\ incomplete_inputs = FALSE
  /\ max_depth = DefaultMaxDepth
  /\ parse_single_element = FALSE
  /\ property_name = <<>>
  /\ char_is_signed = TRUE
  /\ calls = <<>>
  /\ pc = "input"
  /\ tokens = <<>>
  /\ position = 0
  /\ nested = FALSE
  /\ result = NoResult

NextEmpty == ReadElement \/ ParseElement

SpecEmpty == InitEmpty /\ [][NextEmpty]_vars

(***************************************************************************)
(* Decimal literals with underscores between their digits                  *)
(***************************************************************************)

\* The digits with nothing, one underscore or two between neighbours.
RECURSIVE Separated(_)
Separated(digits) ==
  IF Len(digits) = 1 THEN {digits}
  ELSE {<<Head(digits)>> \o separator \o rest :
          separator \in {<<>>, <<"_">>, <<"_", "_">>}, rest \in Separated(Tail(digits))}

\* `document` holds the literal; a reserved rune, a newline or nothing follows.
InitUnderscore ==
  /\ \E n \in 2..MaxDigits :
       \E digits \in DigitStrings({"0", "1", "5"}, n) :
         \E written \in Separated(digits), sign \in {<<>>, <<"-">>},
            rest \in {<<>>, <<".", "5">>, <<".", "0", "_", "5">>, <<"e", "1", "_", "0">>},
            end \in {<<>>, <<",">>, <<"\n">>} :
           /\ document = [k |-> "decimal", v |-> sign \o written \o rest]
           /\ input = sign \o written \o rest \o end
  /\ version = latest
  /\ alternative = <<>>
  /\ incomplete_inputs = FALSE
  /\ max_depth = DefaultMaxDepth
  /\ parse_single_element = FALSE
  /\ property_name = <<>>
  /\ char_is_signed = TRUE
  /\ calls = <<>>
  /\ pc = "input"
  /\ tokens = <<>>
  /\ position = 0
  /\ nested = FALSE
  /\ result = NoResult

NextUnderscore == ReadElement \/ ParseElement

SpecUnderscore == InitUnderscore /\ [][NextUnderscore]_vars

(***************************************************************************)
(* Numeric literals written from a mantissa and an exponent, either of     *)
(* which may have no digit                                                 *)
(***************************************************************************)

\* The digit groups of a base: none, a dot alone, digits, digits with a dot.
DigitGroups(prefix) ==
  UNION {{<<>>, <<".">>, <<digit>>, <<digit, ".", digit>>} :
           digit \in IF prefix = <<>> THEN {"5"}
                     ELSE IF prefix[2] = "x" THEN {"5", "e"}
                     ELSE {"1"}}

\* The exponents: none, or a marker, a sign and digits.  After hex digits an
\* e is the marker only when a sign follows it.
Exponents(prefix) ==
  {[marker |-> <<>>, sign |-> <<>>, digits |-> <<>>]}
  \cup {[marker |-> <<marker>>, sign |-> sign, digits |-> digits] :
          marker \in {"e", "E"},
          sign \in {<<"+">>, <<"-">>} \cup (IF prefix = <<"0", "x">> THEN {} ELSE {<<>>}),
          digits \in {<<>>, <<"1">>}}

\* `document` holds the digit groups the literal is written from.
InitDigits ==
  /\ \E sign \in {<<>>, <<"-">>}, prefix \in {<<>>, <<"0", "x">>, <<"0", "b">>, <<"0", "o">>} :
       \E mantissa \in DigitGroups(prefix), exponent \in Exponents(prefix) :
         /\ document = [k |-> "groups", v |-> mantissa, marker |-> exponent.marker,
                        exponent |-> exponent.digits]
         /\ input = sign \o prefix \o mantissa \o exponent.marker \o exponent.sign
                    \o exponent.digits
  /\ version = latest
  /\ alternative = <<>>
  /\ incomplete_inputs = FALSE
  /\ max_depth = DefaultMaxDepth
  /\ parse_single_element = FALSE
  /\ property_name = <<>>
  /\ char_is_signed = TRUE
  /\ calls = <<>>
  /\ pc = "input"
  /\ tokens = <<>>
  /\ position = 0
  /\ nested = FALSE
  /\ result = NoResult

NextDigits == ReadElement \/ ParseElement

SpecDigits == InitDigits /\ [][NextDigits]_vars

(***************************************************************************)
(* jsonh_number_parser::parse on literals with a fraction in base 16, 2, 8 *)
(***************************************************************************)

FractionDigitsOf(prefix) ==
  IF prefix[2] \in {"x", "X"} THEN {"0", "1", "8", "f"}
  ELSE IF prefix[2] \in {"b", "B"} THEN {"0", "1"}
  ELSE {"0", "7"}

\* `document` holds the sign, the prefix, the whole part and the fraction
\* part of the literal, of MaxDigits digits together.
InitFraction ==
  /\ \E sign \in {<<>>, <<"-">>}, prefix \in Prefixes, n \in 2..MaxDigits :
       \E w \in 1..(n - 1) :
         \E whole \in DigitStrings(FractionDigitsOf(prefix), w),
            fraction \in DigitStrings(FractionDigitsOf(prefix), n - w) :
           /\ document = [k |-> "fraction", sign |-> sign, prefix |-> prefix, v |-> whole,
                          fraction |-> fraction]
           /\ input = sign \o prefix \o whole \o <<".">> \o fraction
  /\ version = latest
  /\ alternative = <<>>
  /\ incomplete_inputs = FALSE
  /\ max_depth = DefaultMaxDepth
  /\ parse_single_element = FALSE
  /\ property_name = <<>>
  /\ char_is_signed = TRUE
  /\ calls = <<>>
  /\ pc = "input"
  /\ tokens = <<>>
  /\ position = 0
  /\ nested = FALSE
  /\ result = NoResult

SpecFraction == InitFraction /\ [][NextNumber]_vars

(***************************************************************************)
(* Strings written with one escape of a single character                   *)
(***************************************************************************)

\* The rune after the backslash and the runes the escape stands for.
SingleEscapes ==
  {[rune |-> "\\", value |-> <<"\\">>], [rune |-> "b", value |-> <<"U+0008">>],
   [rune |-> "f", value |-> <<"\f">>], [rune |-> "n", value |-> <<"\n">>],
   [rune |-> "r", value |-> <<"\r">>], [rune |-> "t", value |-> <<"\t">>],
   [rune |-> "v", value |-> <<VT>>], [rune |-> "0", value |-> <<"U+0000">>],
   [rune |-> "a", value |-> <<"U+0007">>], [rune |-> "e", value |-> <<"U+001B">>],
   [rune |-> "\n", value |-> <<>>], [rune |-> "\r", value |-> <<>>],
   [rune |-> LS, value |-> <<>>],
   [rune |-> "q", value |-> <<"q">>], [rune |-> ":", value |-> <<":">>],
   [rune |-> "\"", value |-> <<"\"">>], [rune |-> "/", value |-> <<"/">>],
   [rune |-> " ", value |-> <<" ">>]}

\* `document` holds the runes the string stands for: the escape is written
\* between x and y, in double quotes, in single quotes or quoteless.
InitEscape ==
  /\ \E escape \in SingleEscapes, quote \in {<<>>, <<"\"">>, <<"'">>} :
       /\ document = [k |-> "escape", v |-> <<"x">> \o escape.value \o <<"y">>,
                      rune |-> escape.rune]
       /\ input = quote \o <<"x", "\\", escape.rune, "y">> \o quote
  /\ version = latest
  /\ alternative = <<>>
  /\ incomplete_inputs = FALSE
  /\ max_depth = DefaultMaxDepth
  /\ parse_single_element = FALSE
  /\ property_name = <<>>
  /\ char_is_signed = TRUE
  /\ calls = <<>>
  /\ pc = "input"
  /\ tokens = <<>>
  /\ position = 0
  /\ nested = FALSE
  /\ result = NoResult

NextEscape == ReadElement \/ ParseElement

SpecEscape == InitEscape /\ [][NextEscape]_vars

(***************************************************************************)
(* Properties                                                              *)
(***************************************************************************)

\* C1: JSON round trip.  parse_element on a JSON text of a value returns
\* that value, nested arrays and objects with all their members.
RoundTrip ==
  (pc = "done" /\ input \in {Json(document, <<>>), Json(document, <<" ">>),
                            Json(document, <<"\n">>)})
  => (result.ok /\ result.value = document)

\* C2: the first failure is terminal.  Whatever the input and the options,
\* the sequence read_element returns holds at most one failure, and a
\* failure is its last entry.
FirstFailureIsTerminal ==
  pc \in {"read", "done"} => \A i \in 1..Len(tokens) : ~tokens[i].ok => i = Len(tokens)

\* read_comments_and_whitespace returned a failure and a comment after it;
\* read_element returned the failure alone.
FirstFailureCutsTheRest ==
  /\ pc = "read"
  /\ Len(ReadCommentsAndWhitespace(input, 0).toks) > 1
  /\ ~ReadCommentsAndWhitespace(input, 0).toks[1].ok
  /\ Len(tokens) = 1
  /\ ~tokens[1].ok

\* The tokens that start or end an object or an array.
Structural(toks) ==
  SelectSeq(toks, LAMBDA t : t.ok /\ t.type \in {"start_object", "end_object",
                                                 "start_array", "end_array"})

\* The containers left open after the structural tokens st[i..], entered with
\* the open ones in `open` (innermost last); `good` is whether every end
\* token closed the innermost open container, one of its own kind, and no
\* structural token came after the root container was closed.
RECURSIVE Nesting(_, _, _)
Nesting(st, i, open) ==
  IF i > Len(st) THEN [good |-> TRUE, open |-> open]
  ELSE IF i > 1 /\ open = <<>> THEN [good |-> FALSE, open |-> open]
  ELSE IF st[i].type = "start_object" THEN Nesting(st, i + 1, Append(open, "object"))
  ELSE IF st[i].type = "start_array" THEN Nesting(st, i + 1, Append(open, "array"))
  ELSE IF open = <<>> THEN [good |-> FALSE, open |-> open]
  ELSE IF open[Len(open)] # (IF st[i].type = "end_object" THEN "object" ELSE "array")
  THEN [good |-> FALSE, open |-> open]
  ELSE Nesting(st, i + 1, SubSeq(open, 1, Len(open) - 1))

\* C3: structural balance.  The start and end tokens read_element returns
\* are well nested and matched by kind, the depth never goes negative and
\* is zero only after the last structural token; without a failure every
\* container is closed, with one the sequence is a prefix of a balanced one.
StructuralBalance ==
  pc \in {"read", "done"} =>
    /\ Nesting(Structural(tokens), 1, <<>>).good
    /\ ~HasFailure(tokens) => Nesting(Structural(tokens), 1, <<>>).open = <<>>

\* An object and an array, one inside the other, read to their end tokens.
BothKindsNested ==
  /\ pc = "read"
  /\ ~HasFailure(tokens)
  /\ \E i, j \in 1..Len(tokens) :
       /\ i < j
       /\ tokens[i].type \in {"start_object", "start_array"}
       /\ tokens[j].type \in {"start_object", "start_array"}
       /\ tokens[i].type # tokens[j].type
  /\ tokens[Len(tokens)].type \in {"end_object", "end_array"}

\* C4: braceless-object promotion.  A top-level string followed by a colon
\* is read as StartObject, a PropertyName carrying the string, the value,
\* every further property and EndObject, and parse_element returns the
\* object with exactly those properties.
BracelessPromotion ==
  (pc = "done" /\ document.k = "object" /\ document.v # <<>> /\ input = Braceless(document))
  => /\ tokens[1] = Tok("start_object", <<>>)
     /\ tokens[2].type = "property_name"
     /\ tokens[2].value \in DOMAIN document.v
     /\ tokens[Len(tokens)] = Tok("end_object", <<>>)
     /\ result.ok
     /\ result.value = document

\* C5: braceless objects cannot be nested.  A name and a colon met as an
\* array item or as the value of a property start no braceless object: the
\* tokens read_element returns end in a failure.
NestedBracelessFails ==
  (pc \in {"read", "done"} /\ nested) => (tokens # <<>> /\ ~tokens[Len(tokens)].ok)

\* The open containers after a value: an object that waited for the value
\* of a property waits for the name of the next one.
AfterValue(open) ==
  IF open # <<>> /\ open[Len(open)] = "value" THEN [open EXCEPT ![Len(open)] = "name"]
  ELSE open

\* Whether every PropertyName of toks[i..] comes where its object waits for
\* a name; `open` lists the open containers, innermost last: "array", or
\* an object that waits for a "name" or for a "value".  Comments are skipped.
RECURSIVE Placement(_, _, _)
Placement(toks, i, open) ==
  IF i > Len(toks) THEN TRUE
  ELSE IF ~toks[i].ok \/ toks[i].type = "comment" THEN Placement(toks, i + 1, open)
  ELSE IF toks[i].type = "property_name"
  THEN /\ open # <<>>
       /\ open[Len(open)] = "name"
       /\ Placement(toks, i + 1, [open EXCEPT ![Len(open)] = "value"])
  ELSE IF toks[i].type = "start_object"
  THEN Placement(toks, i + 1, Append(AfterValue(open), "name"))
  ELSE IF toks[i].type = "start_array"
  THEN Placement(toks, i + 1, Append(AfterValue(open), "array"))
  ELSE IF toks[i].type \in {"end_object", "end_array"}
  THEN open = <<>> \/ Placement(toks, i + 1, SubSeq(open, 1, Len(open) - 1))
  ELSE Placement(toks, i + 1, AfterValue(open))

\* C6: PropertyName placement.  Comments aside, a PropertyName is the first
\* token after a StartObject or after the complete value of the preceding
\* property of the same object, and the innermost open container at a
\* PropertyName is an object.
PropertyNamePlacement ==
  pc \in {"read", "done"} => Placement(tokens, 1, <<>>)

\* A PropertyName after a comment after the array or object that is the
\* value of the preceding property.
NameAfterContainerValue ==
  /\ pc = "read"
  /\ \E i \in 3..Len(tokens) :
       /\ tokens[i].ok /\ tokens[i].type = "property_name"
       /\ tokens[i - 1].ok /\ tokens[i - 1].type = "comment"
       /\ tokens[i - 2].ok /\ tokens[i - 2].type \in {"end_object", "end_array"}

\* The tokens without the comments.
WithoutComments(toks) == SelectSeq(toks, LAMBDA t : ~t.ok \/ t.type # "comment")

\* C7: comments are transparent to the tree builder.  On tokens without a
\* failure parse_element returns what it returns on the same tokens with
\* the Comment tokens removed.
CommentsTransparent ==
  (pc = "done" /\ ~HasFailure(tokens)) => result = parse_element(WithoutComments(tokens))

\* A value parsed from an array or object with a comment between its items
\* or properties.
CommentBetweenItems ==
  /\ pc = "done"
  /\ result.ok
  /\ \E i \in 2..Len(tokens) - 1 :
       /\ tokens[i].type = "comment"
       /\ tokens[i - 1].type \notin {"comment", "start_object", "start_array"}
       /\ tokens[i + 1].type \notin {"comment", "end_object", "end_array"}

\* C8: commas are optional.  With the comma after every item and property,
\* the trailing one before the closing bracket included, read_element
\* returns without failure the tokens it returns when every comma is left
\* out and the next item starts on a new line, and parse_element the same
\* value.
CommasOptional ==
  /\ pc \in {"read", "done"} =>
       /\ ~HasFailure(tokens)
       /\ tokens = read_element(alternative, incomplete_inputs, 0).toks
  /\ pc = "done" =>
       result = parse_element(read_element(alternative, incomplete_inputs, 0).toks)

\* A value parsed from a stream with a trailing comma and a comma between
\* two items or properties.
CommasWritten ==
  /\ pc = "done"
  /\ result.ok
  /\ Len(input) > Len(alternative) + 1
  /\ input[Len(input) - 2] = ","

\* The longest prefix of `text` made of runes of `kept`.
RECURSIVE TakeWhile(_, _)
TakeWhile(text, kept) ==
  IF text # <<>> /\ Head(text) \in kept THEN <<Head(text)>> \o TakeWhile(Tail(text), kept)
  ELSE <<>>

\* The longest prefix of `text` without a rune of `stops`.
RECURSIVE TakeUntil(_, _)
TakeUntil(text, stops) ==
  IF text # <<>> /\ Head(text) \notin stops THEN <<Head(text)>> \o TakeUntil(Tail(text), stops)
  ELSE <<>>

\* `text` after its first n runes.
Drop(text, n) == SubSeq(text, n + 1, Len(text))

\* `text` without the whitespace at its start and at its end.
RECURSIVE Trimmed(_)
Trimmed(text) ==
  IF text = <<>> THEN text
  ELSE IF Head(text) \in whitespace_runes THEN Trimmed(Tail(text))
  ELSE IF text[Len(text)] \in whitespace_runes THEN Trimmed(SubSeq(text, 1, Len(text) - 1))
  ELSE text

\* The numeral the stream starts with, the whitespace of the same line after
\* it, and the quoteless run after that: the runes up to the first reserved
\* rune or newline.
Numeral == TakeWhile(input, {DecimalDigits[i] : i \in DOMAIN DecimalDigits})

SameLineWhitespace ==
  TakeWhile(Drop(input, Len(Numeral)), whitespace_runes \ newline_runes)

AfterWhitespace == Drop(input, Len(Numeral) + Len(SameLineWhitespace))

QuotelessRun(text) == TakeUntil(text, reserved_runes \cup newline_runes)

\* Whether the quoteless run at the start of `text` ends at a backslash.
EndsAtEscape(text) ==
  Len(QuotelessRun(text)) < Len(text) /\ text[Len(QuotelessRun(text)) + 1] = "\\"

\* C9: number or quoteless string.  After a numeral and the whitespace of
\* its line, a rune that is not reserved makes the element one String of
\* the numeral, the whitespace and the rest of the quoteless run, trimmed (a
\* backslash makes it a String too, unless its escape is an error); a
\* reserved rune, a newline or the end of input make it the Number of the
\* numeral.
NumberOrQuotelessString ==
  (pc = "read" /\ Numeral # <<>>) =>
    IF AfterWhitespace = <<>> \/ Head(AfterWhitespace) \in newline_runes
       \/ Head(AfterWhitespace) \in reserved_runes \ {"\\"}
    THEN tokens = <<Tok("number", Numeral)>>
    ELSE IF EndsAtEscape(AfterWhitespace)
    THEN Len(tokens) = 1 /\ (tokens[1].ok => tokens[1].type = "string")
    ELSE tokens = <<Tok("string", Trimmed(Numeral \o SameLineWhitespace
                                          \o QuotelessRun(AfterWhitespace)))>>

\* C10: named literals.  A quoteless string is Null, TrueBool or FalseBool
\* if and only if no escape was read and its trimmed text is null, true or
\* false; otherwise it is the String of the trimmed text.
NamedLiterals ==
  (pc = "read" /\ Numeral = <<>>) =>
    IF EndsAtEscape(input)
    THEN Len(tokens) = 1 /\ (tokens[1].ok => tokens[1].type = "string")
    ELSE tokens = <<NamedLiteralOrString(Trimmed(QuotelessRun(input)), TRUE)>>

\* C11: incomplete_inputs.  With the option, the end of input at any point
\* inside an unclosed array or object is no error: the tokens hold no
\* failure and end with the EndObject or EndArray of every container left
\* open; without the option the same input ends in a failure.
IncompleteInputs ==
  pc = "read" =>
    IF incomplete_inputs
    THEN /\ ~HasFailure(tokens)
         /\ Nesting(Structural(tokens), 1, <<>>) = [good |-> TRUE, open |-> <<>>]
         /\ tokens[Len(tokens)].type \in {"end_object", "end_array"}
    ELSE ~tokens[Len(tokens)].ok

\* The containers around the innermost value of a json value, the value
\* itself counted when it is a container.
RECURSIVE ValueDepth(_)
ValueDepth(value) ==
  IF value.k \notin {"array", "object"} THEN 0
  ELSE LET below == {0} \cup {ValueDepth(value.v[x]) : x \in DOMAIN value.v}
       IN  1 + (CHOOSE most \in below : \A other \in below : other <= most)

RECURSIVE Blank(_)
Blank(text) ==
  IF text = <<>> THEN TRUE
  ELSE IF Head(text) \in whitespace_runes THEN Blank(Tail(text))
  ELSE IF Head(text) = "#" THEN Blank(Drop(text, Len(TakeUntil(text, newline_runes))))
  ELSE IF Len(text) >= 2 /\ text[1] = "/" /\ text[2] = "*"
    THEN \E end \in 3..(Len(text) - 1) :
           /\ text[end] = "*"
           /\ text[end + 1] = "/"
           /\ \A earlier \in 3..(end - 1) : ~(text[earlier] = "*" /\ text[earlier + 1] = "/")
           /\ Blank(Drop(text, end + 1))
  ELSE FALSE

UpTo(members, name) ==
  LET last == CHOOSE i \in 1..Len(Names) : Names[i] = name
      kept == {Names[i] : i \in 1..last} \cap DOMAIN members
  IN  [n \in kept |-> members[n]]

\* The runes of the written object up to the colon of its property `name`.
AfterColon(object, name, gap) ==
  Len(Json(JObject(UpTo(object.v, name)), gap))
    - Len(<<"}">> \o gap \o Json(object.v[name], gap) \o gap)

\* C14: find_property_value(name).  On an object that has a property called
\* name at depth 1 the call returns true with the reader right after the
\* colon of that property, and the next read_element reads the value of
\* that property.
FindPropertyValueStopsAfterColon ==
  property_name \in DOMAIN document.v =>
    /\ pc # "missing"
    /\ pc = "found" =>
         \E gap \in {<<>>, <<" ">>, <<"\n">>} :
           /\ input = Json(document, gap)
           /\ position = AfterColon(document, property_name, gap)
    /\ pc = "value" =>
         WithoutComments(tokens)
           = read_element(Json(document.v[property_name], <<>>), FALSE, 0).toks

\* The rune that starts at the boundary p of a well-formed stream.
RuneAt(s, p) ==
  CHOOSE rune \in RuneBytes :
    /\ p + Len(rune) <= Len(s)
    /\ SubSeq(s, p + 1, p + Len(rune)) = rune

\* Whether a rune starts at offset p of `input`.
AtRune(p) == p \in Boundaries(input, 0) /\ p < Len(input)

\* C15: Rune read.  A read() made at a rune boundary of a well-formed stream
\* returns exactly the bytes of the rune that starts there and leaves the
\* reader that many bytes further, at a rune boundary again.
RuneReadWhole ==
  \A i \in 1..Len(calls) :
    calls[i].call = "read" /\ AtRune(calls[i].from) =>
      /\ calls[i].bytes = RuneAt(input, calls[i].from)
      /\ calls[i].to = calls[i].from + Len(RuneAt(input, calls[i].from))
      /\ calls[i].to \in Boundaries(input, 0)

\* C16: Rune reader round trip.  read() then read_reverse() from a rune
\* boundary p leaves the reader at p, and so does read_reverse() then
\* read() from a boundary with a rune before it.
RuneRoundTrip ==
  \A i \in 1..(Len(calls) - 1) :
    /\ calls[i].call = "read" /\ calls[i + 1].call = "read_reverse" /\ AtRune(calls[i].from)
         => calls[i + 1].to = calls[i].from
    /\ calls[i].call = "read_reverse" /\ calls[i + 1].call = "read"
       /\ calls[i].from \in Boundaries(input, 0) /\ calls[i].from > 0
         => calls[i + 1].to = calls[i].from

\* A line without its first min(indent, k) whitespace runes, k being the
\* number of whitespace runes it starts with.
Dedented(line, indent) ==
  LET k == Len(TakeWhile(line, whitespace_runes))
  IN  Drop(line, IF indent < k THEN indent ELSE k)

\* The dedented lines with a newline between them.
RECURSIVE DedentedBody(_, _)
DedentedBody(lines, indent) ==
  IF lines = <<>> THEN <<>>
  ELSE Dedented(Head(lines), indent)
       \o (IF Len(lines) > 1 THEN <<"\n">> ELSE <<>>)
       \o DedentedBody(Tail(lines), indent)

\* C17: Multiline dedent.  A multi-quoted string whose body starts with
\* optional whitespace and a newline and ends with a newline and T > 0
\* whitespace runes is read as one String token: its lines, each without
\* its first min(T, k) whitespace runes, joined by newlines.
MultilineDedent ==
  /\ pc # "aborted"
  /\ pc = "read" => tokens = <<Tok("string", DedentedBody(document.v, document.indent))>>

\* What a digit is worth.
DigitValues ==
  ("0" :> 0) @@ ("1" :> 1) @@ ("3" :> 3) @@ ("5" :> 5) @@ ("7" :> 7) @@ ("8" :> 8)
  @@ ("e" :> 14) @@ ("E" :> 14) @@ ("f" :> 15)

RECURSIVE Power(_, _)
Power(base, n) == IF n = 0 THEN 1 ELSE base * Power(base, n - 1)

\* The value of the digits in the base: each digit times the power of the
\* base of its column.
RECURSIVE PositionalValue(_, _)
PositionalValue(digits, base) ==
  IF digits = <<>> THEN 0
  ELSE DigitValues[Head(digits)] * Power(base, Len(digits) - 1)
       + PositionalValue(Tail(digits), base)

\* The value the literal of `document` stands for, without an exponent.
LiteralValue ==
  (IF document.sign = <<"-">> THEN -1 ELSE 1)
  * PositionalValue(document.v,
                    IF document.prefix[2] \in {"x", "X"} THEN 16
                    ELSE IF document.prefix[2] \in {"b", "B"} THEN 2 ELSE 8)

\* C18: Base-prefixed integers.  parse of a sign, a prefix and digits of the
\* base, with underscores among them, is the positional value of the
\* digits; a hexadecimal e is a digit unless a sign follows it, and then
\* what follows is a decimal exponent.
BasePrefixedIntegers ==
  \A i \in 1..Len(calls) :
    calls[i].number
      = NumOk(Normal(IF input = document.sign \o document.prefix \o document.v
                                  \o <<"e", "+", "3">>
                     THEN 1000 * LiteralValue ELSE LiteralValue, 0))

HexWithE ==
  /\ Len(calls) = 1
  /\ input = <<"0", "x", "5", "e", "3">>
  /\ calls[1].number = NumOk(Normal(1507, 0))

\* C19: Sign respect.  When parse accepts an unsigned text with a result
\* other than zero, it gives the negated result for the text after a minus
\* sign and the same result for the text after a plus sign.
SignRespected ==
  Len(calls) = 2 /\ calls[1].number.ok /\ calls[1].number.value.m # 0 =>
    calls[2].number
      = IF alternative[1] = "-"
        THEN NumOk([calls[1].number.value EXCEPT !.m = -@])
        ELSE calls[1].number

NegatedHex ==
  /\ Len(calls) = 2
  /\ alternative = <<"-", "0", "x", "5", "e", "+", "3">>
  /\ calls[1].number = NumOk(Normal(5000, 0))
  /\ calls[2].number = NumOk(Normal(-5000, 0))

\* C20: Surrogate pairing.  The escape of a high surrogate followed by a hex
\* escape of a low surrogate is read as the one code point of the pair;
\* followed by anything else the surrogate is refused with "Invalid code
\* point (surrogate half)".
SurrogatePairing ==
  pc = "read" =>
    IF document.next.escape # "none" /\ document.next.value \in 56320..57343
    THEN tokens = <<Tok("string", <<RuneOfCodePoint(65536 + (document.v - 55296) * 1024
                                                    + (document.next.value - 56320))>>)>>
    ELSE tokens = <<Fail("Invalid code point (surrogate half)")>>

\* C21: Unterminated block comments are fatal.  When the stream ends inside
\* a block comment, the tokens read_element returns end in a failure and
\* parse_element returns an error.
UnterminatedBlockCommentFatal ==
  /\ pc = "read" => tokens # <<>> /\ ~tokens[Len(tokens)].ok
  /\ pc = "done" => ~result.ok

\* C22: PropertyName value.  The PropertyName token of a property carries
\* the decoded text of its name (escapes processed, a quoteless name trimmed
\* of whitespace), whatever that text is.
PropertyNameValue ==
  pc = "read" =>
    tokens = <<Tok("start_object", <<>>), Tok("property_name", document.v),
               Tok("string", <<"c", " ", "d">>), Tok("end_object", <<>>)>>

ReadElementReturns == [][pc = "input" => pc' \in {"input", "read"}]_vars

\* C25: Dedent pass 1.  The leading whitespace of a multi-quoted body is
\* removed up to and including its first newline, a CR LF pair counting as
\* one newline, and the value does not depend on what follows the closing
\* quotes: a body of one line of text has that text as its value.
DedentLeadingNewline ==
  pc = "read" => tokens = <<Tok("string", document.v)>>

\* C26: Empty quoteless string.  No String token of a quoteless string has an
\* empty value: when nothing is left of the text after trimming, escaped
\* whitespace included, the result is the error "Empty quoteless string".
EmptyQuotelessString ==
  pc = "read" =>
    /\ \A i \in 1..Len(tokens) :
         tokens[i].ok /\ tokens[i].type = "string" => tokens[i].value # <<>>
    /\ (\A i \in 1..Len(document.v) : document.v[i] \in whitespace_runes)
         => tokens[Len(tokens)] = Fail("Empty quoteless string")

\* C27: Underscore separators.  A decimal literal whose underscores, single
\* or repeated, each stand between two digits, followed by a reserved rune,
\* a newline or the end of the input, is a Number token whose value is the
\* text with its underscores, whatever its first digit.
UnderscoreSeparators ==
  pc = "read" => tokens = <<Tok("number", document.v)>>

\* Some rune of the group is a digit.
HasDigit(group) == \E i \in 1..Len(group) : group[i] \notin {".", "_"}

\* C28: Non-empty digit groups.  A literal emitted as a Number token has a
\* digit of its base in its mantissa and, when it has an exponent marker, a
\* digit in its exponent; this in every base, also for the hex literal whose
\* only digit is the e before a sign.
NonEmptyDigitGroups ==
  (pc = "read" /\ tokens = <<Tok("number", input)>>) =>
    /\ HasDigit(document.v)
    /\ document.marker # <<>> => HasDigit(document.exponent)

\* The base a prefix announces.
BaseOfPrefix(prefix) ==
  IF prefix[2] \in {"x", "X"} THEN 16 ELSE IF prefix[2] \in {"b", "B"} THEN 2 ELSE 8

\* Whether the number m * 10^e is numerator / denominator.
IsRatio(number, numerator, denominator) ==
  /\ number.x = <<>>
  /\ IF number.e >= 0 THEN number.m * Pow10(number.e) * denominator = numerator
     ELSE number.m * denominator = numerator * Pow10(-number.e)

\* C29: Fractional literals in a non-decimal base.  parse of a hex, binary or
\* octal literal W.F is value(W) + value(F) / base^(digits of F), the leading
\* zeros of F counting as digits: hex 1.8 is 1.5.
FractionalLiterals ==
  \A i \in 1..Len(calls) :
    With(BaseOfPrefix(document.prefix), LAMBDA base :
    With(Power(base, Len(document.fraction)), LAMBDA denominator :
      /\ calls[i].number.ok
      /\ IsRatio(calls[i].number.value,
                 (IF document.sign = <<"-">> THEN -1 ELSE 1)
                 * (PositionalValue(document.v, base) * denominator
                    + PositionalValue(document.fraction, base)),
                 denominator)))

\* C30: Single-character escapes.  In a quoted or quoteless string each of
\* the escapes \\ \b \f \n \r \t \v \0 \a \e contributes the one rune it
\* names (NUL for \0), a backslash before a newline contributes nothing and
\* a backslash before any other rune contributes that rune.
SingleCharacterEscapes ==
  pc = "read" => tokens = <<Tok("string", document.v)>>

====
